---------------------------- MODULE Spec2Model ----------------------------
(***************************************************************************)
(* Model of the chat-turn orchestration and the long-term memory subsystem *)
(* of ravenUI (src/routes/api/chat/+server.ts, src/lib/server/quota.ts,    *)
(* src/lib/server/user-settings.ts, src/lib/server/chats.ts).              *)
(*                                                                         *)
(* Conventions.                                                            *)
(*  - A JavaScript string is a sequence of one-character strings.          *)
(*  - A confidence is an integer number of hundredths (0.78 is 78) and a   *)
(*    score an integer number of thousandths.                              *)
(*  - A JavaScript value whose type the code tests is a record tagged by   *)
(*    its type: [t |-> "num", n |-> 78], [t |-> "nan"], [t |-> "str",      *)
(*    s |-> text], [t |-> "bool", b |-> TRUE], [t |-> "undefined"],        *)
(*    [t |-> "null"], [t |-> "obj", ...], [t |-> "arr", items |-> seq].    *)
(*  - A timestamp text is [t |-> "date", day |-> d] when Date.parse reads  *)
(*    it (d a day number) and [t |-> "baddate"] when it does not.          *)
(***************************************************************************)
EXTENDS Integers, Sequences, FiniteSets, TLC

(***************************************************************************)
(* Bounds of the model.                                                    *)
(***************************************************************************)
MaxMemories == 3
MaxLimit == 2
MaxSelectCalls == 2
MaxCandidates == 6
MaxShortCandidates == 2

Min(a, b) == IF a < b THEN a ELSE b
Max(a, b) == IF a > b THEN a ELSE b
Range(s) == {s[i] : i \in 1..Len(s)}

RECURSIVE SeqsUpTo(_, _)
SeqsUpTo(S, n) ==
    IF n = 0 THEN {<<>>}
    ELSE LET shorter == SeqsUpTo(S, n - 1)
         IN  shorter \cup {Append(s, x) : s \in {q \in shorter : Len(q) = n - 1}, x \in S}

(***************************************************************************)
(* Characters and the string methods the code uses.                        *)
(***************************************************************************)
LowerChars == <<"a","b","c","d","e","f","g","h","i","j","k","l","m",
                "n","o","p","q","r","s","t","u","v","w","x","y","z">>
UpperChars == <<"A","B","C","D","E","F","G","H","I","J","K","L","M",
                "N","O","P","Q","R","S","T","U","V","W","X","Y","Z">>
DigitSeq == <<"0","1","2","3","4","5","6","7","8","9">>
DigitChars == Range(DigitSeq)
SpaceChars == {" ", "\t", "\n"}

IsSpace(c) == c \in SpaceChars
LowerAlnumChars == Range(LowerChars) \cup DigitChars
IsLowerAlnum(c) == c \in LowerAlnumChars

LowerOfUpper ==
    [c \in Range(UpperChars) |-> LowerChars[CHOOSE i \in 1..Len(UpperChars) : UpperChars[i] = c]]

LowerChar(c) == IF c \in DOMAIN LowerOfUpper THEN LowerOfUpper[c] ELSE c

toLowerCase(s) == [i \in 1..Len(s) |-> LowerChar(s[i])]

RECURSIVE trimStart(_)
trimStart(s) ==
    IF s = <<>> THEN <<>>
    ELSE IF IsSpace(Head(s)) THEN trimStart(Tail(s)) ELSE s

RECURSIVE trimEnd(_)
trimEnd(s) ==
    IF s = <<>> THEN <<>>
    ELSE IF IsSpace(s[Len(s)]) THEN trimEnd(SubSeq(s, 1, Len(s) - 1)) ELSE s

trim(s) == trimEnd(trimStart(s))

\* s.replace(/\s+/g, ' ')
RECURSIVE collapseWhitespace(_)
collapseWhitespace(s) ==
    IF s = <<>> THEN <<>>
    ELSE IF IsSpace(Head(s)) THEN <<" ">> \o collapseWhitespace(trimStart(s))
    ELSE <<Head(s)>> \o collapseWhitespace(Tail(s))

\* s.slice(0, n)
slice(s, n) == SubSeq(s, 1, Min(n, Len(s)))

\* s.split(/\s+/): the pieces between the maximal runs of whitespace, the empty
\* pieces at the two ends included.
RECURSIVE splitPieces(_, _)
splitPieces(s, piece) ==
    IF s = <<>> THEN <<piece>>
    ELSE IF IsSpace(Head(s)) THEN <<piece>> \o splitPieces(trimStart(s), <<>>)
    ELSE splitPieces(Tail(s), Append(piece, Head(s)))

splitWhitespace(s) == splitPieces(s, <<>>)

\* Does text s contain the literal p (String.prototype.includes)?
includes(s, p) ==
    \E i \in 1..(Len(s) - Len(p) + 1) : SubSeq(s, i, i + Len(p) - 1) = p

(***************************************************************************)
(* user-settings.ts: text normalisation and tokens.                        *)
(***************************************************************************)
MAX_MEMORY_LENGTH == 280
MAX_AUTO_INSERT_PER_TURN == 3
MIN_AUTO_MEMORY_CONFIDENCE == 78

normalizeText(value, maxLength) == slice(collapseWhitespace(trim(value)), maxLength)

normalizeMemoryText(value) == toLowerCase(collapseWhitespace(trim(value)))

tokenize(value) ==
    LET lowered  == toLowerCase(value)
        stripped == [i \in 1..Len(lowered) |->
                        IF IsLowerAlnum(lowered[i]) \/ IsSpace(lowered[i])
                        THEN lowered[i] ELSE " "]
        words    == SelectSeq(splitWhitespace(stripped), LAMBDA token : Len(token) >= 3)
    IN  Range(words)

scoreMemoryAgainstPrompt(memory, promptTokens) ==
    IF promptTokens = {} THEN 0
    ELSE Cardinality({token \in tokenize(memory.content) : token \in promptTokens})

(***************************************************************************)
(* user-settings.ts: selectRelevantMemories.                               *)
(***************************************************************************)
\* Date.parse(memory.updatedAt) is finite exactly for a readable timestamp.
ageDaysOf(memory, now) ==
    IF memory.updatedAt.t = "date" THEN Max(now - memory.updatedAt.day, 0) ELSE 30

\* One element of `scored`: { memory, overlap, score }, score in thousandths.
scoreEntry(memory, promptTokens, now) ==
    LET overlap         == scoreMemoryAgainstPrompt(memory, promptTokens)
        recencyBonus    == Max(0, 1500 - 50 * ageDaysOf(memory, now))
        manualBonus     == IF memory.source = "manual" THEN 300 ELSE 0
        confidenceBonus == memory.confidence * 7
    IN  [memory |-> memory, overlap |-> overlap,
         score |-> overlap * 2000 + recencyBonus + manualBonus + confidenceBonus]

\* Array.prototype.sort((a, b) => b.score - a.score): a stable sort, so an item
\* goes after every item already placed whose score is not smaller.
InsertByScoreDescUnstable(sorted, item) ==
    LET before == SelectSeq(sorted, LAMBDA x : x.score > item.score)
        after  == SelectSeq(sorted, LAMBDA x : x.score <= item.score)
    IN  before \o <<item>> \o after

InsertByScoreDesc(sorted, item) ==
    LET before == SelectSeq(sorted, LAMBDA x : x.score >= item.score)
        after  == SelectSeq(sorted, LAMBDA x : x.score < item.score)
    IN  before \o <<item>> \o after

RECURSIVE sortByScoreDescFrom(_, _)
sortByScoreDescFrom(items, sorted) ==
    IF items = <<>> THEN sorted
    ELSE sortByScoreDescFrom(Tail(items), InsertByScoreDesc(sorted, Head(items)))

sortByScoreDesc(items) == sortByScoreDescFrom(items, <<>>)

keepAllScored(scored, hasOverlap) == scored

keepOnlyOverlapping(scored, hasOverlap) == SelectSeq(scored, LAMBDA item : item.overlap > 0)

\* .filter((item) => (hasOverlap ? item.overlap > 0 : true))
filterScored(scored, hasOverlap) ==
    SelectSeq(scored, LAMBDA item : IF hasOverlap THEN item.overlap > 0 ELSE TRUE)

selectRelevantMemories(memories, latestPrompt, limit, now) ==
    IF Len(memories) = 0 \/ limit <= 0 THEN <<>>
    ELSE LET promptTokens == tokenize(latestPrompt)
             scored       == [i \in 1..Len(memories) |->
                                 scoreEntry(memories[i], promptTokens, now)]
             hasOverlap   == \E i \in 1..Len(scored) : scored[i].overlap > 0
             sorted       == slice(sortByScoreDesc(filterScored(scored, hasOverlap)), limit)
         IN  [i \in 1..Len(sorted) |-> sorted[i].memory]

\* The caller's array after a call: map and filter build new arrays and sort
\* works on the filtered copy, so the argument is left as it was.
memoriesSortedInPlace(memories, latestPrompt, now) ==
    LET scored == sortByScoreDesc([i \in 1..Len(memories) |->
                                     scoreEntry(memories[i], tokenize(latestPrompt), now)])
    IN  [i \in 1..Len(scored) |-> scored[i].memory]

memoriesAfterSelect(memories, latestPrompt, now) == memories

(***************************************************************************)
(* user-settings.ts: candidates, mergeAutoMemories, createUserMemory.      *)
(***************************************************************************)
Null == [t |-> "null"]

IsNull(v) == v.t = "null"

MemoryKinds == {"preference", "profile", "project", "other"}

normalizeMemoryKind(value) == IF value \in MemoryKinds THEN value ELSE "other"

\* Variant of normalizeMemorySource that takes every source for manual.
normalizeMemorySourceAllManual(value) == "manual"

normalizeMemorySource(value) == IF value = "auto" THEN "auto" ELSE "manual"

Num(n) == [t |-> "num", n |-> n]
NaN == [t |-> "nan"]
Infinity == [t |-> "inf"]
Undefined == [t |-> "undefined"]
IsoDay(day) == [t |-> "date", day |-> day]

\* Number.isFinite on a value of type number.
isFiniteNumber(x) == x.t = "num"

\* Math.min(Math.max(x, 0), 1), in hundredths.
clampConfidence(x) == Min(Max(x, 0), 100)

gateConfidenceOff(confidence) == FALSE

gateConfidenceInclusive(confidence) == confidence <= MIN_AUTO_MEMORY_CONFIDENCE

\* if (confidence < MIN_AUTO_MEMORY_CONFIDENCE) return null
belowMinConfidence(confidence) == confidence < MIN_AUTO_MEMORY_CONFIDENCE

normalizeCandidate(candidate) ==
    LET content    == normalizeText(candidate.content, MAX_MEMORY_LENGTH)
        confidence == IF isFiniteNumber(candidate.confidence)
                      THEN clampConfidence(candidate.confidence.n) ELSE 0
    IN  IF content = <<>> THEN Null
        ELSE IF belowMinConfidence(confidence) THEN Null
        ELSE [t |-> "candidate", content |-> content,
              kind |-> normalizeMemoryKind(candidate.kind), confidence |-> confidence]

dedupKeyCaseSensitive(content) == collapseWhitespace(trim(content))

\* const key = normalizeMemoryText(normalized.content)
dedupKey(content) == normalizeMemoryText(content)

insertCapOff(deduped) == FALSE

\* if (deduped.length >= MAX_AUTO_INSERT_PER_TURN) break
insertCapReached(deduped) == Len(deduped) >= MAX_AUTO_INSERT_PER_TURN

seenKeysNotExtended(seen, key) == seen

\* normalizedExisting.add(key)
addSeenKey(seen, key) == seen \cup {key}

\* The for loop of mergeAutoMemories over the candidates that are left.
RECURSIVE dedupeCandidates(_, _, _)
dedupeCandidates(candidates, normalizedExisting, deduped) ==
    IF candidates = <<>> THEN deduped
    ELSE LET normalized == normalizeCandidate(Head(candidates))
         IN  IF IsNull(normalized)
             THEN dedupeCandidates(Tail(candidates), normalizedExisting, deduped)
             ELSE LET key == dedupKey(normalized.content)
                  IN  IF key = <<>> \/ key \in normalizedExisting
                      THEN dedupeCandidates(Tail(candidates), normalizedExisting, deduped)
                      ELSE LET accepted == Append(deduped, normalized)
                           IN  IF insertCapReached(accepted) THEN accepted
                               ELSE dedupeCandidates(Tail(candidates),
                                        addSeenKey(normalizedExisting, key), accepted)

\* const normalizedExisting = new Set(existingMemories.map(...)); the loop.
mergeDeduped(candidates, existingMemories) ==
    dedupeCandidates(candidates,
                     {normalizeMemoryText(existingMemories[i].content) :
                         i \in 1..Len(existingMemories)},
                     <<>>)

\* The row createUserMemory posts, or Null when it throws 'Memory text is
\* required.' before any request.  options.confidence is a finite number or
\* is left out.
createUserMemoryRow(userId, content, kind, source, confidence, nowIso) ==
    LET normalizedContent == normalizeText(content, MAX_MEMORY_LENGTH)
        rawConfidence     == IF confidence.t = "num" THEN confidence.n ELSE 100
    IN  IF normalizedContent = <<>> THEN Null
        ELSE [t |-> "row", user_id |-> userId, content |-> normalizedContent,
              kind |-> normalizeMemoryKind(kind), source |-> normalizeMemorySource(source),
              confidence |-> clampConfidence(rawConfidence), updated_at |-> nowIso]

\* The stored row for a posted one: the store assigns the id and the row is
\* active (the table's defaults).
storedMemoryRow(row, id) ==
    [id |-> id, user_id |-> row.user_id, content |-> row.content, kind |-> row.kind,
     source |-> row.source, confidence |-> row.confidence, updated_at |-> row.updated_at,
     last_used_at |-> Null, is_active |-> TRUE]

(***************************************************************************)
(* user-settings.ts: reading memory rows.                                  *)
(***************************************************************************)
MAX_MEMORY_FETCH == 100

\* parseMemoryRow for a row of chat_user_memories: id, user_id, created_at and
\* updated_at have their column's type and confidence is a finite number.
parseMemoryRow(row) ==
    LET normalizedContent == normalizeText(row.content, MAX_MEMORY_LENGTH)
    IN  IF normalizedContent = <<>> THEN Null
        ELSE [t |-> "memory", id |-> row.id, userId |-> row.user_id,
              content |-> normalizedContent, kind |-> normalizeMemoryKind(row.kind),
              source |-> normalizeMemorySource(row.source),
              confidence |-> clampConfidence(row.confidence),
              updatedAt |-> row.updated_at, lastUsedAt |-> row.last_used_at]

\* The answers the store may give to the query of listUserMemories: the
\* user's active rows, newest updated_at first (rows with the same updated_at in
\* any order), cut to the capped limit.
listQueryAnswers(rows, userId, limit) ==
    LET cappedLimit == Min(Max(limit, 1), MAX_MEMORY_FETCH)
        matching    == {i \in 1..Len(rows) : rows[i].user_id = userId /\ rows[i].is_active}
        orders      == {o \in [1..Cardinality(matching) -> matching] :
                           /\ \A a, b \in DOMAIN o : a # b => o[a] # o[b]
                           /\ \A a, b \in DOMAIN o :
                                  a < b => rows[o[a]].updated_at.day >= rows[o[b]].updated_at.day}
    IN  {slice([k \in DOMAIN o |-> rows[o[k]]], cappedLimit) : o \in orders}

\* payload.map(parseMemoryRow).filter((row) => row !== null)
parseMemoryRows(payload) ==
    SelectSeq([i \in 1..Len(payload) |-> parseMemoryRow(payload[i])],
              LAMBDA parsed : ~IsNull(parsed))

(***************************************************************************)
(* JavaScript values of unknown type, as the code tests them.              *)
(***************************************************************************)
Bool(b) == [t |-> "bool", b |-> b]
Str(s) == [t |-> "str", s |-> s]
Arr(items) == [t |-> "arr", items |-> items]

\* Boolean(value), and the test `!value` negated.
ToBoolean(value) ==
    CASE value.t = "bool" -> value.b
      [] value.t = "num"  -> value.n # 0
      [] value.t = "str"  -> value.s # <<>>
      [] value.t \in {"undefined", "null", "nan"} -> FALSE
      [] OTHER -> TRUE

\* typeof value === 'object'
IsTypeofObject(value) == value.t \in {"obj", "arr", "null"}

\* Array.isArray(value)
IsArray(value) == value.t = "arr"

\* value[0] of an array
FirstItem(array) == IF Len(array.items) = 0 THEN Undefined ELSE array.items[1]

\* record.name of a value that passed the object test: an array or an object
\* without the property gives undefined.
Property(record, name) ==
    IF record.t = "obj" /\ name \in DOMAIN record THEN record[name] ELSE Undefined

DigitValue == [c \in DigitChars |-> CHOOSE i \in 0..9 : DigitSeq[i + 1] = c]

RECURSIVE DecimalValue(_)
DecimalValue(digits) ==
    IF digits = <<>> THEN 0
    ELSE 10 * DecimalValue(SubSeq(digits, 1, Len(digits) - 1)) + DigitValue[digits[Len(digits)]]

\* Number(text) for the texts a store sends: blank is 0, a run of decimal
\* digits is its value, any other text here is NaN.
NumberOfText(text) ==
    LET trimmed == trim(text)
    IN  IF trimmed = <<>> THEN Num(0)
        ELSE IF \A i \in 1..Len(trimmed) : trimmed[i] \in DigitChars
        THEN Num(DecimalValue(trimmed))
        ELSE NaN

(***************************************************************************)
(* Errors.  An Error is [t |-> "error", message |-> text].                 *)
(***************************************************************************)
Error(message) == [t |-> "error", message |-> message]

IsError(v) == v.t = "error"

\* `${prefix} (${status}): ${details}` of a refused request.
FailureMessage(prefix, refusal) ==
    prefix \o <<" ", "(">> \o refusal.status \o <<")", ":", " ">> \o refusal.details

(***************************************************************************)
(* quota.ts.                                                               *)
(***************************************************************************)
toNumber(value) ==
    IF value.t = "num" THEN value.n
    ELSE IF value.t = "str" /\ NumberOfText(value.s).t = "num" THEN NumberOfText(value.s).n
    ELSE 0

TxtVip ==
    <<"v","i","p">>
TxtDev ==
    <<"d","e","v">>
TxtCreator ==
    <<"c","r","e","a","t","o","r">>
TxtBase ==
    <<"b","a","s","e">>

toRole(value) ==
    IF value = Str(TxtVip) THEN "vip"
    ELSE IF value = Str(TxtDev) \/ value = Str(TxtCreator) THEN "dev"
    ELSE "base"

TxtRpcFailed ==
    <<"S","u","p","a","b","a","s","e"," ","R","P","C"," ","c","o","n","s",
      "u","m","e","_","d","a","i","l","y","_","m","e","s","s","a","g","e",
      "_","q","u","o","t","a"," ","f","a","i","l","e","d">>
TxtInvalidUuidSyntax ==
    <<"i","n","v","a","l","i","d"," ","i","n","p","u","t"," ","s","y","n",
      "t","a","x"," ","f","o","r"," ","t","y","p","e"," ","u","u","i","d">>
TxtSchemaExpectsUuid ==
    <<"S","u","p","a","b","a","s","e"," ","s","c","h","e","m","a"," ","s",
      "t","i","l","l"," ","e","x","p","e","c","t","s"," ","U","U","I","D",
      " ","u","s","e","r"," ","i","d","s","."," ","R","e","-","r","u","n",
      " ","s","u","p","a","b","a","s","e","/","s","e","t","u","p",".","s",
      "q","l"," ","t","o"," ","m","i","g","r","a","t","e"," ","u","s","e",
      "r","_","i","d"," ","c","o","l","u","m","n","s","/","f","u","n","c",
      "t","i","o","n","s"," ","t","o"," ","t","e","x","t",".">>
TxtInvalidQuotaPayload ==
    <<"S","u","p","a","b","a","s","e"," ","q","u","o","t","a"," ","R","P",
      "C"," ","r","e","t","u","r","n","e","d"," ","a","n"," ","i","n","v",
      "a","l","i","d"," ","p","a","y","l","o","a","d",".">>

\* callRpc: the answer of the RPC is [t |-> "refusal", status, details] or
\* [t |-> "json", value |-> payload]; a refusal is thrown.
callRpcResult(answer) ==
    IF answer.t = "refusal"
    THEN (IF includes(answer.details, TxtInvalidUuidSyntax) THEN Error(TxtSchemaExpectsUuid)
          ELSE Error(FailureMessage(TxtRpcFailed, answer)))
    ELSE answer.value

\* allowed: Boolean(record.allowed)
allowedOf(record) == ToBoolean(Property(record, "allowed"))

\* consumeDailyQuota after the RPC answered: the QuotaResult, or the Error it
\* throws.
consumeDailyQuota(answer) ==
    LET payload == callRpcResult(answer)
    IN  IF IsError(payload) THEN payload
        ELSE LET row == IF IsArray(payload) THEN FirstItem(payload) ELSE payload
             IN  IF ~ToBoolean(row) \/ ~IsTypeofObject(row)
                 THEN Error(TxtInvalidQuotaPayload)
                 ELSE [t |-> "quota",
                       allowed   |-> allowedOf(row),
                       role      |-> toRole(Property(row, "role_name")),
                       used      |-> toNumber(Property(row, "used")),
                       limit     |-> toNumber(Property(row, "quota_limit")),
                       remaining |-> toNumber(Property(row, "remaining"))]

(***************************************************************************)
(* chats.ts.                                                               *)
(***************************************************************************)
HexChars == DigitChars \cup {"a", "b", "c", "d", "e", "f"}

\* UUID_PATTERN.test(value)
isUuid(value) ==
    /\ Len(value) = 36
    /\ \A i \in 1..36 :
          LET c == LowerChar(value[i])
          IN  CASE i \in {9, 14, 19, 24} -> c = "-"
                [] i = 15 -> c \in {"1", "2", "3", "4", "5"}
                [] i = 20 -> c \in {"8", "9", "a", "b"}
                [] OTHER  -> c \in HexChars

MAX_TITLE_LENGTH == 60

TxtNewChat ==
    <<"N","e","w"," ","c","h","a","t">>

normalizeThreadTitle(message) ==
    LET normalized == collapseWhitespace(trim(message))
    IN  IF normalized = <<>> THEN TxtNewChat ELSE slice(normalized, MAX_TITLE_LENGTH)

\* normalizeAttachments (the same function in chats.ts and in the chat route).
normalizeAttachments(value) ==
    IF ~IsArray(value) THEN <<>>
    ELSE LET strings == SelectSeq(value.items, LAMBDA item : item.t = "str")
             trimmed == [i \in 1..Len(strings) |-> trim(strings[i].s)]
         IN  SelectSeq(trimmed, LAMBDA item : item # <<>>)

\* parseThreadRow for a row of chat_threads (its columns have their types).
parseThreadRow(row) ==
    [t |-> "thread", id |-> row.id, title |-> row.title, updatedAt |-> row.updated_at]

\* parseMessageRow for a row of chat_messages.
parseMessageRow(row) ==
    IF row.role # "user" /\ row.role # "assistant" THEN Null
    ELSE [t |-> "message", id |-> row.id, threadId |-> row.thread_id, role |-> row.role,
          content |-> row.content, attachments |-> normalizeAttachments(row.attachments)]

\* Variant of threadQueryAnswer without the user_id filter.
threadQueryAnswerAnyOwner(rows, userId, threadId) ==
    SelectSeq(rows, LAMBDA row : row.id = threadId)

\* The answer to the query of getThreadForUser: id=eq.threadId, user_id=eq.userId,
\* limit=1.
threadQueryAnswer(rows, userId, threadId) ==
    SelectSeq(rows, LAMBDA row : row.id = threadId /\ row.user_id = userId)

\* The answer to the query of listMessagesForThread, oldest first
\* (chat_messages is kept in created_at order).
messageQueryAnswer(rows, userId, threadId) ==
    SelectSeq(rows, LAMBDA row : row.thread_id = threadId /\ row.user_id = userId)

\* payload.map(parseMessageRow).filter((row) => row !== null)
parseMessageRows(payload) ==
    SelectSeq([i \in 1..Len(payload) |-> parseMessageRow(payload[i])],
              LAMBDA parsed : ~IsNull(parsed))

\* The row addMessageToThread posts, or the Error it throws before any request.
TxtInvalidThreadId ==
    <<"I","n","v","a","l","i","d"," ","t","h","r","e","a","d"," ","i","d",
      ".">>

addMessageRow(userId, threadId, role, content, attachments) ==
    IF ~isUuid(threadId) THEN Error(TxtInvalidThreadId)
    ELSE [t |-> "row", thread_id |-> threadId, user_id |-> userId, role |-> role,
          content |-> content,
          attachments |-> Arr([i \in 1..Len(attachments) |-> Str(attachments[i])])]

\* The stored row for a posted message: the store assigns the id.
storedMessageRow(row, id) ==
    [id |-> id, thread_id |-> row.thread_id, user_id |-> row.user_id, role |-> row.role,
     content |-> row.content, attachments |-> row.attachments]

(***************************************************************************)
(* routes/api/chat/+server.ts: the pure helpers.                           *)
(***************************************************************************)
MAX_MEMORY_PROMPT_ENTRIES == 8
MAX_EXTRACTED_MEMORIES == 6
MAX_EXTRACTED_CONTENT_LENGTH == 280
MAX_HISTORY_MESSAGES == 20
MEMORY_LIST_LIMIT == 80

RECURSIVE join(_, _)
join(parts, separator) ==
    IF parts = <<>> THEN <<>>
    ELSE IF Len(parts) = 1 THEN parts[1]
    ELSE parts[1] \o separator \o join(Tail(parts), separator)

TxtAttachedFiles ==
    <<"\n","\n","A","t","t","a","c","h","e","d"," ","f","i","l","e","s"," ",
      "(","n","a","m","e","s"," ","o","n","l","y",")",":"," ">>

formatUserMessageForModel(content, attachments) ==
    IF Len(attachments) = 0 THEN content
    ELSE content \o TxtAttachedFiles \o join(attachments, <<",", " ">>)

\* Variant of lastMessages that keeps the oldest messages.
firstMessages(history) ==
    IF Len(history) <= MAX_HISTORY_MESSAGES THEN history
    ELSE SubSeq(history, 1, MAX_HISTORY_MESSAGES)

\* history.slice(-20)
lastMessages(history) ==
    IF Len(history) <= MAX_HISTORY_MESSAGES THEN history
    ELSE SubSeq(history, Len(history) - MAX_HISTORY_MESSAGES + 1, Len(history))

toModelMessages(history) ==
    LET recent == lastMessages(history)
    IN  [i \in 1..Len(recent) |->
            IF recent[i].role = "user" /\ Len(recent[i].attachments) > 0
            THEN [role |-> "user",
                  content |-> formatUserMessageForModel(recent[i].content,
                                                        recent[i].attachments)]
            ELSE [role |-> recent[i].role, content |-> recent[i].content]]

TxtApplySettings ==
    <<"A","p","p","l","y"," ","t","h","e","s","e"," ","u","s","e","r","-",
      "s","p","e","c","i","f","i","c"," ","s","e","t","t","i","n","g","s",
      " ","w","h","e","n"," ","a","n","s","w","e","r","i","n","g","."," ",
      "F","o","l","l","o","w"," ","t","h","e","m"," ","u","n","l","e","s",
      "s"," ","t","h","e","y"," ","c","o","n","f","l","i","c","t"," ","w",
      "i","t","h"," ","s","a","f","e","t","y"," ","r","u","l","e","s"," ",
      "o","r"," ","t","h","e"," ","u","s","e","r"," ","e","x","p","l","i",
      "c","i","t","l","y"," ","o","v","e","r","r","i","d","e","s"," ","t",
      "h","e","m"," ","i","n"," ","t","h","i","s"," ","c","h","a","t",".">>
TxtGuidanceHeading ==
    <<"P","e","r","s","o","n","a","l","i","z","a","t","i","o","n"," ","g",
      "u","i","d","a","n","c","e"," ","f","r","o","m"," ","t","h","e"," ",
      "u","s","e","r",":","\n">>
TxtMemoryHeading ==
    <<"S","a","v","e","d"," ","m","e","m","o","r","y"," ","a","b","o","u",
      "t"," ","t","h","e"," ","u","s","e","r",":","\n">>

\* buildSettingsSystemPrompt: the text, or Null.
buildSettingsSystemPrompt(personalizationGuidance, memoryEntries) ==
    LET normalizedGuidance == trim(personalizationGuidance)
        guidanceSection    == IF normalizedGuidance # <<>>
                              THEN <<TxtGuidanceHeading \o normalizedGuidance>> ELSE <<>>
        memoryList         == join([i \in 1..Len(memoryEntries) |->
                                       <<"-", " ">> \o memoryEntries[i]], <<"\n">>)
        memorySection      == IF Len(memoryEntries) > 0
                              THEN <<TxtMemoryHeading \o memoryList>> ELSE <<>>
        sections           == guidanceSection \o memorySection
    IN  IF Len(sections) = 0 THEN Null
        ELSE Str(join(<<TxtApplySettings>> \o sections, <<"\n", "\n">>))

\* The alternatives of the pattern of shouldAttemptAutoMemoryCapture.
CapturePhrases ==
    {
      <<"i"," ","p","r","e","f","e","r">>,
      <<"i"," ","l","i","k","e">>,
      <<"i"," ","l","o","v","e">>,
      <<"i"," ","h","a","t","e">>,
      <<"i"," ","a","m">>,
      <<"i"," ","w","o","r","k">>,
      <<"i"," ","u","s","e">>,
      <<"i"," ","w","a","n","t">>,
      <<"m","y"," ","n","a","m","e">>,
      <<"m","y"," ","t","i","m","e","z","o","n","e">>,
      <<"m","y"," ","p","r","o","j","e","c","t">>,
      <<"m","y"," ","r","o","l","e">>,
      <<"m","y"," ","c","o","m","p","a","n","y">>,
      <<"m","y"," ","g","o","a","l">>,
      <<"c","a","l","l"," ","m","e">>,
      <<"r","e","m","e","m","b","e","r"," ","t","h","a","t">>,
      <<"i"," ","u","s","u","a","l","l","y">>,
      <<"i"," ","a","l","w","a","y","s">>,
      <<"i"," ","n","e","v","e","r">> }

MIN_CAPTURE_LENGTH == 14

shouldAttemptAutoMemoryCapture(userMessage) ==
    LET normalized == toLowerCase(trim(userMessage))
    IN  IF Len(normalized) < MIN_CAPTURE_LENGTH THEN FALSE
        ELSE \E phrase \in CapturePhrases : includes(normalized, phrase)

TxtPreference ==
    <<"p","r","e","f","e","r","e","n","c","e">>
TxtProfile ==
    <<"p","r","o","f","i","l","e">>
TxtProject ==
    <<"p","r","o","j","e","c","t">>
TxtOther ==
    <<"o","t","h","e","r">>

normalizeKind(value) ==
    IF value = Str(TxtPreference) THEN "preference"
    ELSE IF value = Str(TxtProfile) THEN "profile"
    ELSE IF value = Str(TxtProject) THEN "project"
    ELSE "other"

\* Number(record.confidence ?? 0) in hundredths, for a value that is not of
\* type number: a text is read as a number, true is 1, false 0, an object NaN.
confidenceOfOther(value) ==
    CASE value.t \in {"undefined", "null"} -> Num(0)
      [] value.t = "str"  -> (IF NumberOfText(value.s).t = "num"
                              THEN Num(100 * NumberOfText(value.s).n) ELSE NaN)
      [] value.t = "bool" -> (IF value.b THEN Num(100) ELSE Num(0))
      [] OTHER -> NaN

\* The callback of saveList.map in parseAutoMemoryCandidates.
parseAutoMemoryEntry(entry) ==
    IF ~ToBoolean(entry) \/ ~IsTypeofObject(entry) THEN Null
    ELSE LET rawContent    == IF Property(entry, "content").t = "str"
                              THEN Property(entry, "content").s ELSE <<>>
             content       == slice(collapseWhitespace(trim(rawContent)),
                                    MAX_EXTRACTED_CONTENT_LENGTH)
             given         == Property(entry, "confidence")
             rawConfidence == IF given.t \in {"num", "nan", "inf"} THEN given
                              ELSE confidenceOfOther(given)
             confidence    == IF isFiniteNumber(rawConfidence)
                              THEN clampConfidence(rawConfidence.n) ELSE 0
         IN  IF content = <<>> THEN Null
             ELSE [content |-> content, kind |-> normalizeKind(Property(entry, "kind")),
                   confidence |-> Num(confidence)]

\* Variant of parseAutoMemoryCandidates that reads a save that is one object
\* as a list of one entry.
candidatesOfAnySave(payload) ==
    IF ~ToBoolean(payload) THEN <<>>
    ELSE LET saveList == Property(payload, "save")
             items    == IF IsArray(saveList) THEN saveList.items ELSE <<saveList>>
         IN  slice(SelectSeq([i \in 1..Len(items) |-> parseAutoMemoryEntry(items[i])],
                             LAMBDA entry : entry # Null),
                   MAX_EXTRACTED_MEMORIES)

\* Lines 158-195.
parseAutoMemoryCandidates(payload) ==
    IF ~ToBoolean(payload) THEN <<>>
    ELSE LET saveList == Property(payload, "save")
         IN  IF ~IsArray(saveList) THEN <<>>
             ELSE slice(SelectSeq([i \in 1..Len(saveList.items) |->
                                      parseAutoMemoryEntry(saveList.items[i])],
                                  LAMBDA entry : entry # Null),
                        MAX_EXTRACTED_MEMORIES)

(***************************************************************************)
(* JSON.parse.  The result of a parsing step is [ok |-> FALSE], or           *)
(* [ok |-> TRUE, value, next] with the value read and the index after it.   *)
(* An object becomes a record with the tag t = "obj" and one field per key  *)
(* (the last of equal keys wins); a number is kept in hundredths, rounded    *)
(* down, as the confidence of a candidate is.  Exponents and the escapes    *)
(* \b, \f and \u do not occur in the texts of the model and are not read.   *)
(***************************************************************************)
JsonSpaceChars == {" ", "\t", "\n", "\r"}

NoParse == [ok |-> FALSE]

Parsed(value, next) == [ok |-> TRUE, value |-> value, next |-> next]

RECURSIVE skipJsonSpace(_, _)
skipJsonSpace(text, i) ==
    IF i <= Len(text) /\ text[i] \in JsonSpaceChars THEN skipJsonSpace(text, i + 1) ELSE i

\* The key of a member as a field name.
RECURSIVE TextOf(_)
TextOf(chars) == IF chars = <<>> THEN "" ELSE chars[1] \o TextOf(Tail(chars))

startsWithAt(text, i, word) ==
    /\ i + Len(word) - 1 <= Len(text)
    /\ SubSeq(text, i, i + Len(word) - 1) = word

EscapedChar ==
    [c \in {"\"", "\\", "/", "n", "t", "r"} |->
        IF c = "n" THEN "\n" ELSE IF c = "t" THEN "\t" ELSE IF c = "r" THEN "\r" ELSE c]

\* The characters of a string from index i, which follows the opening quote.
RECURSIVE scanJsonString(_, _, _)
scanJsonString(text, i, chars) ==
    IF i > Len(text) THEN NoParse
    ELSE IF text[i] = "\"" THEN Parsed(chars, i + 1)
    ELSE IF text[i] = "\\"
    THEN IF i + 1 <= Len(text) /\ text[i + 1] \in DOMAIN EscapedChar
         THEN scanJsonString(text, i + 2, Append(chars, EscapedChar[text[i + 1]]))
         ELSE NoParse
    ELSE IF text[i] \in {"\n", "\t", "\r"} THEN NoParse
    ELSE scanJsonString(text, i + 1, Append(chars, text[i]))

RECURSIVE digitsEnd(_, _)
digitsEnd(text, i) ==
    IF i <= Len(text) /\ text[i] \in DigitChars THEN digitsEnd(text, i + 1) ELSE i

parseJsonNumber(text, i) ==
    LET first       == IF text[i] = "-" THEN i + 1 ELSE i
        intEnd      == digitsEnd(text, first)
        hasFraction == intEnd <= Len(text) /\ text[intEnd] = "."
        fracEnd     == IF hasFraction THEN digitsEnd(text, intEnd + 1) ELSE intEnd
        hundredths  == 100 * DecimalValue(SubSeq(text, first, intEnd - 1))
                       + DecimalValue(SubSeq(SubSeq(text, intEnd + 1, fracEnd - 1)
                                             \o <<"0", "0">>, 1, 2))
    IN  IF intEnd = first THEN NoParse
        ELSE IF text[first] = "0" /\ intEnd > first + 1 THEN NoParse
        ELSE IF hasFraction /\ fracEnd = intEnd + 1 THEN NoParse
        ELSE Parsed(Num(IF text[i] = "-" THEN 0 - hundredths ELSE hundredths), fracEnd)

\* The object of the members read: the value of a key is that of its last
\* member.
objectOf(names, members) ==
    [name \in Range(names) \cup {"t"} |->
        IF name = "t" THEN "obj"
        ELSE members[CHOOSE k \in 1..Len(names) :
                        /\ names[k] = name
                        /\ \A j \in (k + 1)..Len(names) : names[j] # name].value]

RECURSIVE parseJsonValue(_, _)
RECURSIVE parseJsonMembers(_, _, _)
RECURSIVE parseJsonElements(_, _, _)

membersAfter(text, i, members) ==
    IF i > Len(text) THEN NoParse
    ELSE IF text[i] = "}"
    THEN Parsed(objectOf([k \in 1..Len(members) |-> TextOf(members[k].key)], members), i + 1)
    ELSE IF text[i] = ","
    THEN parseJsonMembers(text, skipJsonSpace(text, i + 1), members)
    ELSE NoParse

memberAfterValue(text, key, value, members) ==
    IF ~value.ok THEN NoParse
    ELSE membersAfter(text, skipJsonSpace(text, value.next),
                      Append(members, [key |-> key, value |-> value.value]))

memberAfterKey(text, key, i, members) ==
    IF i > Len(text) \/ text[i] # ":" THEN NoParse
    ELSE memberAfterValue(text, key, parseJsonValue(text, skipJsonSpace(text, i + 1)),
                          members)

memberFrom(text, key, members) ==
    IF ~key.ok THEN NoParse
    ELSE memberAfterKey(text, key.value, skipJsonSpace(text, key.next), members)

\* The members of an object from index i, where a key must start.
parseJsonMembers(text, i, members) ==
    IF i > Len(text) \/ text[i] # "\"" THEN NoParse
    ELSE memberFrom(text, scanJsonString(text, i + 1, <<>>), members)

elementsAfter(text, i, elements) ==
    IF i > Len(text) THEN NoParse
    ELSE IF text[i] = "]" THEN Parsed(Arr(elements), i + 1)
    ELSE IF text[i] = ","
    THEN parseJsonElements(text, skipJsonSpace(text, i + 1), elements)
    ELSE NoParse

elementFrom(text, value, elements) ==
    IF ~value.ok THEN NoParse
    ELSE elementsAfter(text, skipJsonSpace(text, value.next),
                       Append(elements, value.value))

\* The elements of an array from index i, where a value must start.
parseJsonElements(text, i, elements) ==
    elementFrom(text, parseJsonValue(text, i), elements)

stringValue(chars) ==
    IF chars.ok THEN Parsed(Str(chars.value), chars.next) ELSE NoParse

\* The value that starts at index i, which is no white space.
parseJsonValue(text, i) ==
    IF i > Len(text) THEN NoParse
    ELSE IF text[i] = "{"
    THEN IF startsWithAt(text, skipJsonSpace(text, i + 1), <<"}">>)
         THEN Parsed([t |-> "obj"], skipJsonSpace(text, i + 1) + 1)
         ELSE parseJsonMembers(text, skipJsonSpace(text, i + 1), <<>>)
    ELSE IF text[i] = "["
    THEN IF startsWithAt(text, skipJsonSpace(text, i + 1), <<"]">>)
         THEN Parsed(Arr(<<>>), skipJsonSpace(text, i + 1) + 1)
         ELSE parseJsonElements(text, skipJsonSpace(text, i + 1), <<>>)
    ELSE IF text[i] = "\"" THEN stringValue(scanJsonString(text, i + 1, <<>>))
    ELSE IF text[i] = "-" \/ text[i] \in DigitChars THEN parseJsonNumber(text, i)
    ELSE IF startsWithAt(text, i, <<"t", "r", "u", "e">>) THEN Parsed(Bool(TRUE), i + 4)
    ELSE IF startsWithAt(text, i, <<"f", "a", "l", "s", "e">>) THEN Parsed(Bool(FALSE), i + 5)
    ELSE IF startsWithAt(text, i, <<"n", "u", "l", "l">>) THEN Parsed(Null, i + 4)
    ELSE NoParse

wholeText(text, value) ==
    IF value.ok /\ skipJsonSpace(text, value.next) > Len(text) THEN value ELSE NoParse

\* JSON.parse(text): [ok |-> FALSE] when it throws.
JSONparse(text) == wholeText(text, parseJsonValue(text, skipJsonSpace(text, 1)))

(***************************************************************************)
(* parseJsonObjectFromText (lines 120-150).  Indices count from 1 and 0      *)
(* stands for "not found".                                                  *)
(***************************************************************************)
\* text.indexOf(pattern, from)
indexOfFrom(text, pattern, from) ==
    LET hits == {i \in from..(Len(text) - Len(pattern) + 1) : startsWithAt(text, i, pattern)}
    IN  IF hits = {} THEN 0 ELSE CHOOSE i \in hits : \A j \in hits : i <= j

\* text.lastIndexOf(pattern)
lastIndexOf(text, pattern) ==
    LET hits == {i \in 1..(Len(text) - Len(pattern) + 1) : startsWithAt(text, i, pattern)}
    IN  IF hits = {} THEN 0 ELSE CHOOSE i \in hits : \A j \in hits : i >= j

RECURSIVE skipSpace(_, _)
skipSpace(text, i) == IF i <= Len(text) /\ IsSpace(text[i]) THEN skipSpace(text, i + 1) ELSE i

\* The grave accent, which a string of this module cannot hold.
Grave == "GRAVE"

Fence == <<Grave, Grave, Grave>>

\* The text between the tag and the closing fence, given where the opening
\* fence is.
captureAfter(text, inner) ==
    IF indexOfFrom(text, Fence, inner) = 0 THEN Null
    ELSE Str(SubSeq(text, inner, indexOfFrom(text, Fence, inner) - 1))

\* Line 127: group 1 of the match of the fence pattern (a fence, the optional
\* tag json in any case, white space, the lazy capture, a fence), Null when
\* there is no match.  The match starts at the first fence, takes the tag and
\* the white space after it, and ends at the next fence.
fencedCapture(text) ==
    LET open == indexOfFrom(text, Fence, 1)
    IN  IF open = 0 THEN Null
        ELSE captureAfter(text,
                 skipSpace(text,
                     IF startsWithAt(toLowerCase(text), open + 3, <<"j", "s", "o", "n">>)
                     THEN open + 7 ELSE open + 3))

\* Variant of candidateTexts with the whole trimmed reply only.
candidateTextsWholeOnly(trimmed, fenced, objectStart, objectEnd) ==
    IF trimmed # <<>> THEN <<trimmed>> ELSE <<>>

\* Lines 121-137: the candidates in the order they are tried.
candidateTexts(trimmed, fenced, objectStart, objectEnd) ==
    (IF trimmed # <<>> THEN <<trimmed>> ELSE <<>>)
    \o (IF fenced # Null /\ fenced.s # <<>> THEN <<trim(fenced.s)>> ELSE <<>>)
    \o (IF objectStart > 0 /\ objectEnd > objectStart
        THEN <<SubSeq(trimmed, objectStart, objectEnd)>> ELSE <<>>)

objectOrNext(parsed, next) ==
    IF parsed.ok /\ ToBoolean(parsed.value) /\ IsTypeofObject(parsed.value)
    THEN parsed.value ELSE next

\* Lines 139-149: the first candidate that parses to an object, or null.
RECURSIVE firstParsedObject(_)
firstParsedObject(candidates) ==
    IF candidates = <<>> THEN Null
    ELSE objectOrNext(JSONparse(Head(candidates)), firstParsedObject(Tail(candidates)))

candidatesOfTrimmed(trimmed) ==
    candidateTexts(trimmed, fencedCapture(trimmed), indexOfFrom(trimmed, <<"{">>, 1),
                   lastIndexOf(trimmed, <<"}">>))

parseJsonObjectFromText(text) == firstParsedObject(candidatesOfTrimmed(trim(text)))

(***************************************************************************)
(* user-settings.ts: settings.                                             *)
(***************************************************************************)
MAX_PERSONALIZATION_LENGTH == 1200

\* parseSettingsRow for a row of chat_user_settings (user_id and updated_at
\* have their column's type).
parseSettingsRow(row) ==
    [t |-> "settings", userId |-> row.user_id,
     personalizationGuidance |-> normalizeText(row.personalization_guidance,
                                               MAX_PERSONALIZATION_LENGTH),
     memoryEnabled |-> row.memory_enabled # Bool(FALSE),
     autoMemoryEnabled |-> row.auto_memory_enabled # Bool(FALSE),
     updatedAt |-> row.updated_at]

defaultUserSettings(userId, nowIso) ==
    [t |-> "settings", userId |-> userId, personalizationGuidance |-> <<>>,
     memoryEnabled |-> TRUE, autoMemoryEnabled |-> TRUE, updatedAt |-> nowIso]

TxtSettingsTable ==
    <<"c","h","a","t","_","u","s","e","r","_","s","e","t","t","i","n","g",
      "s">>
TxtMemoriesTable ==
    <<"c","h","a","t","_","u","s","e","r","_","m","e","m","o","r","i","e",
      "s">>
TxtDoesNotExist ==
    <<"d","o","e","s"," ","n","o","t"," ","e","x","i","s","t">>

isMemorySchemaMissingError(error) ==
    LET message == toLowerCase(error.message)
    IN  /\ includes(message, TxtSettingsTable) \/ includes(message, TxtMemoriesTable)
        /\ includes(message, TxtDoesNotExist)

TxtFetchSettingsFailed ==
    <<"F","a","i","l","e","d"," ","t","o"," ","f","e","t","c","h"," ","u",
      "s","e","r"," ","s","e","t","t","i","n","g","s">>
TxtUpdateSettingsFailed ==
    <<"F","a","i","l","e","d"," ","t","o"," ","u","p","d","a","t","e"," ",
      "u","s","e","r"," ","s","e","t","t","i","n","g","s">>
TxtUpdateSettingsEmpty ==
    <<"F","a","i","l","e","d"," ","t","o"," ","u","p","d","a","t","e"," ",
      "u","s","e","r"," ","s","e","t","t","i","n","g","s",":"," ","e","m",
      "p","t","y"," ","r","e","s","p","o","n","s","e",".">>
TxtListMemoriesFailed ==
    <<"F","a","i","l","e","d"," ","t","o"," ","l","i","s","t"," ","m","e",
      "m","o","r","i","e","s">>
TxtCreateMemoryFailed ==
    <<"F","a","i","l","e","d"," ","t","o"," ","c","r","e","a","t","e"," ",
      "m","e","m","o","r","y">>
TxtTouchMemoryFailed ==
    <<"F","a","i","l","e","d"," ","t","o"," ","t","o","u","c","h"," ","m",
      "e","m","o","r","y">>

\* The answer to the query of getOrCreateUserSettings: user_id=eq.userId, limit=1.
settingsQueryAnswer(rows, userId) == SelectSeq(rows, LAMBDA row : row.user_id = userId)

\* The row upsertUserSettings(userId, {}) posts: the empty patch sets no column
\* but updated_at.
upsertSettingsRow(userId, nowIso) == [user_id |-> userId, updated_at |-> nowIso]

\* Array.from(new Set(memoryIds.filter((id) => Number.isInteger(id) && id > 0)))
RECURSIVE uniqueIds(_)
uniqueIds(memoryIds) ==
    IF memoryIds = <<>> THEN <<>>
    ELSE LET before == uniqueIds(SubSeq(memoryIds, 1, Len(memoryIds) - 1))
             id     == memoryIds[Len(memoryIds)]
         IN  IF id > 0 /\ id \notin Range(before) THEN Append(before, id) ELSE before

\* The process environment: the variables chat-providers.ts reads.
Deployment(provider, override, apiKey, fallbackModel, timeoutMs, systemPrompt) ==
    [LLM_PROVIDER |-> provider, ALLOW_PROVIDER_OVERRIDE |-> override,
     OPENROUTER_API_KEY |-> apiKey, OPENROUTER_MODEL |-> <<>>,
     OPENROUTER_FALLBACK_MODEL |-> fallbackModel, OPENROUTER_TIMEOUT_MS |-> timeoutMs,
     CHAT_SYSTEM_PROMPT |-> systemPrompt]

\* No variable of the environment is set.
NoDeployment == Deployment("", "", <<>>, <<>>, <<>>, <<>>)

(***************************************************************************)
(* State.                                                                  *)
(***************************************************************************)
VARIABLES
    now,            \* the clock (day number) the calls read
    memRows,        \* chat_user_memories: the rows, row i has id i
    merges,         \* invocations of mergeAutoMemories, running and finished
    selInput,       \* selectRelevantMemories called directly: the array as first passed
    selMemories,    \*   the memories array the caller holds
    selPrompt,      \*   the latestPrompt argument
    selLimit,       \*   the limit argument
    selResults,     \*   what the calls made so far returned
    threads,        \* chat_threads: the rows, oldest first
    messages,       \* chat_messages: the rows in created_at order, row i has id i
    settingsRows,   \* chat_user_settings: the rows
    request,        \* the request POST /api/chat received
    env,            \* the process environment chat-providers.ts reads
    providerLog,    \* what the provider and the abort timer did to the calls, in order
    consoleErrors,  \* the background tasks whose failure console.error has printed
    turn,           \* the activation of POST: where it stands and its locals
    callLog,        \* the calls the handler has made, in order
    quotaAnswer,    \* what the quota RPC answered (Null before it has)
    loadedSettings, \* what getOrCreateUserSettings returned (Null if it has not)
    memoryError,    \* the error the settings/memory load caught (Null if none)
    touchTasks,     \* touchMemories calls dispatched, running and finished
    extractions,    \* extractAutoMemoryCandidates calls dispatched
    parseText,      \* parseJsonObjectFromText called directly: the JSON object text
    parseResults,   \*   what it and parseAutoMemoryCandidates made of the replies
    settingsCalls,  \* calls of the settings functions made directly, with their position
    memoryCalls     \* requests on the memory table served side by side, with their position

selVars == <<selInput, selMemories, selPrompt, selLimit, selResults>>
mergeVars == <<memRows, merges>>
chatVars == <<threads, messages>>
ghostVars == <<callLog, quotaAnswer, loadedSettings, memoryError, providerLog>>
turnVars == <<chatVars, settingsRows, request, env, turn, ghostVars, touchTasks, extractions,
              consoleErrors>>
parseVars == <<parseText, parseResults>>
aloneVars == <<parseVars, settingsCalls, memoryCalls>>
vars == <<now, selVars, mergeVars, turnVars, aloneVars>>

\* The activation of POST before the request is read.
idleTurn ==
    [pc |-> "idle", userId |-> "", message |-> <<>>, attachments |-> <<>>,
     threadId |-> <<>>, quota |-> Null, thread |-> Null, modelMessages |-> <<>>,
     memoryStorageAvailable |-> TRUE, userSettings |-> Null, userMemories |-> <<>>,
     relevantMemories |-> <<>>, settingsSystemPrompt |-> Null, messagesForModel |-> <<>>,
     call |-> Null, completion |-> Null, response |-> Null]

\* No request is served: the state of the chat route when a function of
\* user-settings.ts is exercised alone.
NoTurn ==
    /\ threads = <<>>
    /\ messages = <<>>
    /\ settingsRows = <<>>
    /\ request = Null
    /\ env = NoDeployment
    /\ providerLog = <<>>
    /\ consoleErrors = {}
    /\ turn = idleTurn
    /\ callLog = <<>>
    /\ quotaAnswer = Null
    /\ loadedSettings = Null
    /\ memoryError = Null
    /\ touchTasks = {}
    /\ extractions = {}

\* No function is called directly on a text or on the settings table.
NoAlone ==
    /\ parseText = <<>>
    /\ parseResults = <<>>
    /\ settingsCalls = <<>>
    /\ memoryCalls = <<>>

(***************************************************************************)
(* Texts the inputs are drawn from.                                        *)
(***************************************************************************)
TxtLikesTea      == <<"l","i","k","e","s"," ","t","e","a">>
TxtUsesJavaTea   == <<"U","s","e","s"," ","J","a","v","a"," ","&"," ","t","e","a">>
TxtIsVegan       == <<"i","s"," ","a"," ","v","e","g","a","n">>
TxtGo            == <<"g","o">>
TxtTeaOrJava     == <<"T","e","a"," ","o","r"," ","J","a","v","a","?">>
TxtHi            == <<"h","i">>
TxtJavaJava      == <<"j","a","v","a",","," ","J","A","V","A","!">>
TxtNotePad       == <<"n","o","t","e"," ","p","a","d">>
TxtLikesPython   == <<"L","i","k","e","s"," ","P","y","t","h","o","n">>
TxtLikesPythonWs == <<"l","i","k","e","s"," "," "," ","p","y","t","h","o","n">>
TxtLikesPythonUp == <<" ","L","I","K","E","S","\t","P","Y","T","H","O","N"," ">>
TxtOwnsCat       == <<"o","w","n","s"," ","a"," ","c","a","t">>
TxtOwnsCatVar    == <<"O","w","n","s"," "," ","a"," ","C","a","t">>
TxtBlank         == <<" "," ">>
TxtPlaysGo       == <<"p","l","a","y","s"," ","g","o">>
TxtFactTwoVar    == <<"F","a","c","t"," ","2">>

(***************************************************************************)
(* selectRelevantMemories called on inputs drawn from bounded sets.        *)
(***************************************************************************)
SelProfiles ==
    { [content |-> TxtLikesTea,    source |-> "manual", confidence |-> 100, updatedAt |-> IsoDay(100)],
      [content |-> TxtUsesJavaTea, source |-> "auto",   confidence |-> 80,  updatedAt |-> IsoDay(90)],
      [content |-> TxtIsVegan,     source |-> "auto",   confidence |-> 90,  updatedAt |-> [t |-> "baddate"]],
      [content |-> TxtIsVegan,     source |-> "manual", confidence |-> 60,  updatedAt |-> IsoDay(70)],
      [content |-> TxtLikesTea,    source |-> "auto",   confidence |-> 60,  updatedAt |-> IsoDay(76)],
      [content |-> TxtGo,          source |-> "auto",   confidence |-> 78,  updatedAt |-> IsoDay(110)] }

SelPrompts == {TxtTeaOrJava, TxtHi, TxtJavaJava, TxtNotePad}

\* A memories array: entry i has id i.
memoriesFromProfiles(profiles) ==
    [i \in 1..Len(profiles) |->
        [t |-> "memory", id |-> i, userId |-> "u1", content |-> profiles[i].content,
         kind |-> "other", source |-> profiles[i].source,
         confidence |-> profiles[i].confidence, updatedAt |-> profiles[i].updatedAt,
         lastUsedAt |-> Null]]

SelectInit ==
    /\ now = 100
    /\ selMemories \in {memoriesFromProfiles(p) : p \in SeqsUpTo(SelProfiles, MaxMemories)}
    /\ selInput = selMemories
    /\ selPrompt \in SelPrompts
    /\ selLimit \in 0..MaxLimit
    /\ selResults = <<>>
    /\ memRows = <<>>
    /\ merges = {}
    /\ NoTurn
    /\ NoAlone

\* One call selectRelevantMemories(selMemories, selPrompt, selLimit).
SelectCall ==
    /\ Len(selResults) < MaxSelectCalls
    /\ selResults' = Append(selResults,
                            selectRelevantMemories(selMemories, selPrompt, selLimit, now))
    /\ selMemories' = memoriesAfterSelect(selMemories, selPrompt, now)
    /\ UNCHANGED <<now, aloneVars, selInput, selPrompt, selLimit, mergeVars, turnVars>>

SelectNext == SelectCall

SpecSelect == SelectInit /\ [][SelectNext]_vars

(***************************************************************************)
(* mergeAutoMemories: one invocation, step by step.                        *)
(* A record of `merges` is one invocation: its arguments, the list         *)
(* `deduped` it built, the rows it has posted so far and where it stands   *)
(* ("called", "creating", "done", or "failed" when a create threw).        *)
(***************************************************************************)
newMerge(id, userId, candidates, existingMemories) ==
    [id |-> id, userId |-> userId, candidates |-> candidates,
     existing |-> existingMemories, deduped |-> <<>>, requests |-> <<>>,
     status |-> "called"]

\* Lines 481-504: the empty-list return and the loop that builds `deduped`.
MergeBegin(m) ==
    /\ m.status = "called"
    /\ LET deduped == IF Len(m.candidates) = 0 THEN <<>>
                      ELSE mergeDeduped(m.candidates, m.existing)
       IN  merges' = (merges \ {m}) \cup
                        {[m EXCEPT !.deduped = deduped,
                                   !.status = IF deduped = <<>> THEN "done" ELSE "creating"]}
    /\ UNCHANGED <<now, aloneVars, memRows, selVars, turnVars>>

\* Lines 506-512: the next createUserMemory.  The store inserts the row and
\* answers, or inserts it and the answer is unusable, or refuses; createUserMemory
\* throws in the last two cases and the invocation ends there.
MergeCreate(m) ==
    /\ m.status = "creating"
    /\ LET candidate == m.deduped[Len(m.requests) + 1]
           row       == createUserMemoryRow(m.userId, candidate.content, candidate.kind,
                                            "auto", Num(candidate.confidence), IsoDay(now))
       IN  IF IsNull(row)
           THEN /\ merges' = (merges \ {m}) \cup {[m EXCEPT !.status = "failed"]}
                /\ UNCHANGED memRows
           ELSE \E outcome \in {"created", "created-bad-answer", "refused"} :
                  /\ memRows' = IF outcome = "refused" THEN memRows
                                ELSE Append(memRows, storedMemoryRow(row, Len(memRows) + 1))
                  /\ merges' = (merges \ {m}) \cup
                        {[m EXCEPT !.requests = Append(m.requests, row),
                                   !.status = IF outcome # "created" THEN "failed"
                                              ELSE IF Len(m.requests) + 1 = Len(m.deduped)
                                              THEN "done" ELSE "creating"]}
    /\ UNCHANGED <<now, aloneVars, selVars, turnVars>>

(* The arguments of the invocation checked alone. *)
ExistingRowPool ==
    << [id |-> 1, user_id |-> "u1", content |-> TxtLikesPython, kind |-> "preference",
        source |-> "manual", confidence |-> 100, updated_at |-> IsoDay(90),
        last_used_at |-> Null, is_active |-> TRUE],
       [id |-> 2, user_id |-> "u1", content |-> TxtFactTwoVar, kind |-> "profile",
        source |-> "auto", confidence |-> 85, updated_at |-> IsoDay(80),
        last_used_at |-> Null, is_active |-> TRUE] >>

ExistingRowLists == {SubSeq(ExistingRowPool, 1, n) : n \in 0..Len(ExistingRowPool)}

CandidatePool ==
    { [content |-> TxtLikesPythonWs, kind |-> "preference", confidence |-> Num(95)],
      [content |-> TxtLikesPythonUp, kind |-> "preference", confidence |-> Num(100)],
      [content |-> TxtOwnsCat,       kind |-> "profile",    confidence |-> Num(78)],
      [content |-> TxtOwnsCat,       kind |-> "profile",    confidence |-> Num(77)],
      [content |-> TxtOwnsCatVar,    kind |-> "hobby",      confidence |-> Num(90)],
      [content |-> TxtBlank,         kind |-> "other",      confidence |-> Num(100)],
      [content |-> TxtPlaysGo,       kind |-> "project",    confidence |-> NaN],
      [content |-> TxtPlaysGo,       kind |-> "project",    confidence |-> Infinity],
      [content |-> TxtPlaysGo,       kind |-> "project",    confidence |-> Num(150)],
      [content |-> TxtPlaysGo,       kind |-> "project",    confidence |-> Num(-5)] }

\* A fact only the candidate at `position` states.
FreshText(position) == <<"f","a","c","t"," ", DigitSeq[position + 1]>>

CandidateShapes == {"fresh", "low", "sameAsFirst"}

candidateOfShape(shape, position) ==
    CASE shape = "fresh" ->
           [content |-> FreshText(position), kind |-> "preference", confidence |-> Num(78)]
      [] shape = "low" ->
           [content |-> FreshText(position), kind |-> "profile", confidence |-> Num(77)]
      [] shape = "sameAsFirst" ->
           [content |-> <<"F","A","C","T"," "," ","1">>, kind |-> "other",
            confidence |-> Num(90)]

CandidateLists ==
    SeqsUpTo(CandidatePool, MaxShortCandidates) \cup
    {[i \in 1..Len(shapes) |-> candidateOfShape(shapes[i], i)] :
        shapes \in SeqsUpTo(CandidateShapes, MaxCandidates)}

MergeInit ==
    /\ now = 100
    /\ \E rows \in ExistingRowLists, candidates \in CandidateLists :
          /\ memRows = rows
          /\ merges = {newMerge(1, "u1", candidates, parseMemoryRows(rows))}
    /\ selInput = <<>>
    /\ selMemories = <<>>
    /\ selPrompt = <<>>
    /\ selLimit = 0
    /\ selResults = <<>>
    /\ NoTurn
    /\ NoAlone

MergeNext ==
    \/ \E m \in merges : MergeBegin(m)
    \/ \E m \in merges : MergeCreate(m)

SpecMerge == MergeInit /\ [][MergeNext]_vars

(***************************************************************************)
(* What one request is served with: the request, the rows of the store and *)
(* the answers of the collaborators.                                       *)
(***************************************************************************)
TxtOwnThreadId ==
    <<"2","2","2","2","2","2","2","2","-","2","2","2","2","-","4","2","2",
      "2","-","8","2","2","2","-","2","2","2","2","2","2","2","2","2","2",
      "2","2">>
TxtOwnThreadIdPadded ==
    <<" ","2","2","2","2","2","2","2","2","-","2","2","2","2","-","4","2",
      "2","2","-","8","2","2","2","-","2","2","2","2","2","2","2","2","2",
      "2","2","2"," ">>
TxtForeignThreadId ==
    <<"1","1","1","1","1","1","1","1","-","1","1","1","1","-","4","1","1",
      "1","-","8","1","1","1","-","1","1","1","1","1","1","1","1","1","1",
      "1","1">>
NewThreadId ==
    <<"3","3","3","3","3","3","3","3","-","3","3","3","3","-","4","3","3",
      "3","-","A","3","3","3","-","3","3","3","3","3","3","3","3","3","3",
      "3","3">>
TxtNotAUuid ==
    <<"n","o","t","-","a","-","u","u","i","d">>
TxtUnknownThreadId ==
    <<"4","4","4","4","4","4","4","4","-","4","4","4","4","-","4","4","4",
      "4","-","8","4","4","4","-","4","4","4","4","4","4","4","4","4","4",
      "4","4">>
TxtPreferTea ==
    <<" ","I"," ","p","r","e","f","e","r"," ","t","e","a",","," ","o","k",
      "?"," ">>
TxtReply ==
    <<"N","o","t","e","d",".">>
TxtBeBrief ==
    <<"B","e"," ","b","r","i","e","f">>
TxtBeBriefPadded ==
    <<" "," ","B","e"," "," ","b","r","i","e","f"," ">>
TxtFileA ==
    <<" ","a",".","t","x","t"," ">>
TxtFileB ==
    <<"b",".","p","n","g">>
TxtOldChat ==
    <<"O","l","d"," ","c","h","a","t">>
TxtPrefersTea ==
    <<"P","r","e","f","e","r","s"," ","t","e","a">>
TxtLikesTeaVar ==
    <<" ","l","i","k","e","s"," "," ","T","E","A"," ">>
TxtIsTired ==
    <<"I","s"," ","t","i","r","e","d">>
TxtHobby ==
    <<"h","o","b","b","y">>
TxtOne ==
    <<"1">>
TxtFive ==
    <<"5">>
TxtFalse ==
    <<"f","a","l","s","e">>

\* How the store may refuse a request.
TxtStatus404 ==
    <<"4","0","4">>
TxtStatus503 ==
    <<"5","0","3">>
TxtConnectionReset ==
    <<"u","p","s","t","r","e","a","m"," ","c","o","n","n","e","c","t"," ",
      "e","r","r","o","r"," ","o","r"," ","d","i","s","c","o","n","n","e",
      "c","t","/","r","e","s","e","t"," ","b","e","f","o","r","e"," ","h",
      "e","a","d","e","r","s">>
TxtSettingsRelationMissing ==
    <<"{","\"","c","o","d","e","\"",":","\"","4","2","P","0","1","\"",",",
      "\"","m","e","s","s","a","g","e","\"",":","\"","r","e","l","a","t",
      "i","o","n"," ","\\","\"","p","u","b","l","i","c",".","c","h","a","t",
      "_","u","s","e","r","_","s","e","t","t","i","n","g","s","\\","\""," ",
      "d","o","e","s"," ","n","o","t"," ","e","x","i","s","t","\"","}">>
TxtMemoriesRelationMissing ==
    <<"{","\"","c","o","d","e","\"",":","\"","4","2","P","0","1","\"",",",
      "\"","m","e","s","s","a","g","e","\"",":","\"","r","e","l","a","t",
      "i","o","n"," ","\\","\"","p","u","b","l","i","c",".","C","h","a","t",
      "_","U","s","e","r","_","M","e","m","o","r","i","e","s","\\","\""," ",
      "D","o","e","s"," ","N","o","t"," ","E","x","i","s","t","\"","}">>

Refusal(status, details) == [t |-> "refusal", status |-> status, details |-> details]

StoreUnavailable == Refusal(TxtStatus503, TxtConnectionReset)
SettingsTableMissing == Refusal(TxtStatus404, TxtSettingsRelationMissing)
MemoriesTableMissing == Refusal(TxtStatus404, TxtMemoriesRelationMissing)

(***************************************************************************)
(* chat-providers.ts (src/unnamed/part_005, lines 1472-1646).  The process  *)
(* environment env is a record of the variables the code reads, an unset   *)
(* one being empty.  A provider request in flight is a record               *)
(*   [t |-> "request", provider, modelId, phase, ok, timer, primaryError]:  *)
(* phase "fetch" until the response headers arrive and "body" while the     *)
(* body is read, ok the status of the response, timer whether the abort     *)
(* timer is armed, primaryError the Error of the primary model when this    *)
(* is the request to the fallback model.  The provider's events are "ok",   *)
(* "refused" and "unreachable" for the fetch, "timeout" for the timer and   *)
(* "completion" (with the text ensureTextResponse makes of the payload) or  *)
(* "details" for the body.  A payload with an error node under status 200   *)
(* is not among the events.                                                 *)
(***************************************************************************)
TxtDefaultModel ==
    <<"d","e","e","p","s","e","e","k","/","d","e","e","p","s","e","e","k",
      "-","c","h","a","t">>
TxtBackupModel ==
    <<"b","a","c","k","u","p","/","m","o","d","e","l">>
TxtMissingApiKey ==
    <<"M","i","s","s","i","n","g"," ","O","P","E","N","R","O","U","T","E",
      "R","_","A","P","I","_","K","E","Y",".">>
TxtTimedOutAfter ==
    <<"O","p","e","n","R","o","u","t","e","r"," ","t","i","m","e","d"," ",
      "o","u","t"," ","a","f","t","e","r"," ">>
TxtMsForModel ==
    <<"m","s"," ","f","o","r"," ","m","o","d","e","l"," ","\"">>
TxtQuoteDot ==
    <<"\"",".">>
TxtQuoteColon ==
    <<"\"",":"," ">>
TxtRequestFailedFor ==
    <<"O","p","e","n","R","o","u","t","e","r"," ","r","e","q","u","e","s",
      "t"," ","f","a","i","l","e","d"," ","f","o","r"," ","m","o","d","e",
      "l"," ","\"">>
TxtOpenRouterError ==
    <<"O","p","e","n","R","o","u","t","e","r"," ","e","r","r","o","r"," ",
      "(">>
TxtForModel ==
    <<")"," ","f","o","r"," ","m","o","d","e","l"," ","\"">>
TxtReturnedEmptyFor ==
    <<"O","p","e","n","R","o","u","t","e","r"," ","r","e","t","u","r","n",
      "e","d"," ","a","n"," ","e","m","p","t","y"," ","c","o","m","p","l",
      "e","t","i","o","n"," ","f","o","r"," ","m","o","d","e","l"," ","\"">>
TxtPrimaryModelHead ==
    <<"O","p","e","n","R","o","u","t","e","r"," ","p","r","i","m","a","r",
      "y"," ","m","o","d","e","l"," ","\"">>
TxtFailedColon ==
    <<"\""," ","f","a","i","l","e","d",":"," ">>
TxtFallbackModelHead ==
    <<" ","F","a","l","l","b","a","c","k"," ","m","o","d","e","l"," ","\"">>
TxtKoboldError ==
    <<"K","o","b","o","l","d","C","p","p"," ","e","r","r","o","r"," ","(">>
TxtCloseColon ==
    <<")",":"," ">>
TxtEmptyCompletion ==
    <<"K","o","b","o","l","d","C","p","p"," ","r","e","t","u","r","n","e",
      "d"," ","a","n"," ","e","m","p","t","y"," ","c","o","m","p","l","e",
      "t","i","o","n",".">>
TxtFetchFailed ==
    <<"f","e","t","c","h"," ","f","a","i","l","e","d">>
TxtNoResponseBody ==
    <<"N","o"," ","r","e","s","p","o","n","s","e"," ","b","o","d","y",".">>
TxtOverloaded ==
    <<"o","v","e","r","l","o","a","d","e","d">>

\* `${n}` of a non-negative integer.
RECURSIVE DecimalText(_)
DecimalText(n) ==
    IF n < 10 THEN <<DigitSeq[n + 1]>>
    ELSE DecimalText(n \div 10) \o <<DigitSeq[(n % 10) + 1]>>

\* Lines 1473-1485.
getOpenRouterTimeoutMs ==
    LET rawValue == trim(env.OPENROUTER_TIMEOUT_MS)
        parsed   == NumberOfText(rawValue)
    IN  IF rawValue = <<>> THEN 60000
        ELSE IF ~isFiniteNumber(parsed) THEN 60000
        ELSE Min(Max(parsed.n, 1000), 300000)

\* Lines 1487-1492.
normalizeProvider(value) == IF value = "openrouter" THEN "openrouter" ELSE "koboldcpp"

\* Line 1520.
openRouterModel ==
    IF env.OPENROUTER_MODEL = <<>> THEN TxtDefaultModel ELSE env.OPENROUTER_MODEL

\* Variant of abortTimerArmed in which requestOnce arms no timer.
abortTimerNotArmed(provider) == FALSE

\* Lines 1529-1532 and 1603-1613: requestOnce arms a timer that aborts its
\* fetch; callKoboldCpp passes no signal to its fetch and arms nothing.
abortTimerArmed(provider) == provider = "openrouter"

\* DEFAULT_SYSTEM_PROMPT (lines 1341-1342 of chat-providers.ts).
DEFAULT_SYSTEM_PROMPT ==
    <<"Y","o","u"," ","a","r","e"," ","a"," ","h","e","l","p","f","u","l",
      " ","a","s","s","i","s","t","a","n","t","."," ","G","i","v","e"," ",
      "c","o","n","c","i","s","e",","," ","u","s","e","f","u","l"," ","a",
      "n","s","w","e","r","s","."," ","D","o"," ","n","o","t"," ","o","u",
      "t","p","u","t"," ","c","h","a","i","n","-","o","f","-","t","h","o",
      "u","g","h","t",","," ","i","n","t","e","r","n","a","l"," ","r","e",
      "a","s","o","n","i","n","g",","," ","o","r"," ","t","a","g","s"," ",
      "l","i","k","e"," ","<","t","h","i","n","k",">",".",".",".","<","/",
      "t","h","i","n","k",">","."," ","P","r","o","v","i","d","e"," ","o",
      "n","l","y"," ","t","h","e"," ","f","i","n","a","l"," ","a","n","s",
      "w","e","r",".">>

\* Lines 1344-1347.
getSystemPrompt ==
    LET customPrompt == trim(env.CHAT_SYSTEM_PROMPT)
    IN  IF Len(customPrompt) > 0 THEN customPrompt ELSE DEFAULT_SYSTEM_PROMPT

TxtHello ==
    <<"H","e","l","l","o">>

\* Variant of sanitizeMessages that puts the base prompt first whatever the
\* messages hold.
sanitizeMessagesBaseFirst(msgs) ==
    LET trimmed   == [i \in 1..Len(msgs) |->
                         [role |-> msgs[i].role, content |-> trim(msgs[i].content)]]
        sanitized == SelectSeq(trimmed, LAMBDA message : Len(message.content) > 0)
    IN  <<[role |-> "system", content |-> getSystemPrompt]>> \o sanitized

\* Lines 1498-1513.
sanitizeMessages(msgs) ==
    LET trimmed      == [i \in 1..Len(msgs) |->
                            [role |-> msgs[i].role,
                             content |-> trim(msgs[i].content)]]
        sanitized    == SelectSeq(trimmed, LAMBDA message : Len(message.content) > 0)
        baseMessages == IF Len(sanitized) > 0 THEN sanitized
                        ELSE <<[role |-> "user", content |-> TxtHello]>>
    IN  IF \E i \in 1..Len(baseMessages) : baseMessages[i].role = "system"
        THEN baseMessages
        ELSE <<[role |-> "system", content |-> getSystemPrompt]>> \o baseMessages

\* requestOnce up to its fetch (lines 1527-1549): `input` is the messages
\* callOpenRouter was given, `messages` those of the request body.
requestOnce(msgs, modelId, primaryError) ==
    [t |-> "request", provider |-> "openrouter", modelId |-> modelId, phase |-> "fetch",
     ok |-> FALSE, timer |-> abortTimerArmed("openrouter"), primaryError |-> primaryError,
     input |-> msgs, messages |-> sanitizeMessages(msgs)]

\* The response the model's provider refuses a request with.
ProviderRefusal == Refusal(TxtStatus503, TxtOverloaded)

\* Variant of emptyCompletion that takes every text for a completion.
emptyCompletionAccepted(reply) == FALSE

\* Lines 1576-1579 and 1621-1624: `if (!reply)`.
emptyCompletion(reply) == reply = <<>>

\* requestOnce from its fetch on (lines 1549-1581): the pending request, the
\* reply it returns as Str, or the Error it throws.
requestOnceAnswered(call, event, reply, timeoutMs) ==
    IF call.phase = "fetch"
    THEN IF event = "timeout"
         THEN Error(TxtTimedOutAfter \o DecimalText(timeoutMs) \o TxtMsForModel
                    \o call.modelId \o TxtQuoteDot)
         ELSE IF event = "unreachable"
         THEN Error(TxtRequestFailedFor \o call.modelId \o TxtQuoteColon \o TxtFetchFailed)
         ELSE [call EXCEPT !.phase = "body", !.ok = (event = "ok"), !.timer = FALSE]
    ELSE IF ~call.ok
    THEN Error(TxtOpenRouterError \o ProviderRefusal.status \o TxtForModel \o call.modelId
               \o TxtQuoteColon
               \o (IF trim(ProviderRefusal.details) = <<>> THEN TxtNoResponseBody
                   ELSE trim(ProviderRefusal.details)))
    ELSE IF emptyCompletion(reply)
    THEN Error(TxtReturnedEmptyFor \o call.modelId \o TxtQuoteDot)
    ELSE Str(reply)

\* callOpenRouter up to its first fetch (lines 1515-1584).
callOpenRouter(msgs) ==
    IF env.OPENROUTER_API_KEY = <<>> THEN Error(TxtMissingApiKey)
    ELSE requestOnce(msgs, openRouterModel, Null)

\* callOpenRouter once the provider or the timer has acted (lines 1583-1597).
callOpenRouterAnswered(call, event, reply) ==
    LET result        == requestOnceAnswered(call, event, reply, getOpenRouterTimeoutMs)
        model         == openRouterModel
        fallbackModel == trim(env.OPENROUTER_FALLBACK_MODEL)
    IN  IF ~IsError(result) THEN result
        ELSE IF call.primaryError = Null
        THEN IF fallbackModel = <<>> \/ fallbackModel = model THEN result
             ELSE requestOnce(call.input, fallbackModel, result)
        ELSE Error(TxtPrimaryModelHead \o model \o TxtFailedColon
                   \o call.primaryError.message \o TxtFallbackModelHead \o fallbackModel
                   \o TxtFailedColon \o result.message)

\* callKoboldCpp up to its fetch (lines 1600-1613).
callKoboldCpp(msgs) ==
    [t |-> "request", provider |-> "koboldcpp", modelId |-> <<>>, phase |-> "fetch",
     ok |-> FALSE, timer |-> abortTimerArmed("koboldcpp"), primaryError |-> Null,
     input |-> msgs, messages |-> sanitizeMessages(msgs)]

\* callKoboldCpp once the provider has acted (lines 1603-1626): a fetch that
\* fails throws its own error.
callKoboldCppAnswered(call, event, reply) ==
    IF call.phase = "fetch"
    THEN IF event = "unreachable" THEN Error(TxtFetchFailed)
         ELSE [call EXCEPT !.phase = "body", !.ok = (event = "ok")]
    ELSE IF ~call.ok
    THEN Error(TxtKoboldError \o ProviderRefusal.status \o TxtCloseColon
               \o ProviderRefusal.details)
    ELSE IF emptyCompletion(reply) THEN Error(TxtEmptyCompletion)
    ELSE Str(reply)

\* Lines 1630-1632.  requestedProvider is "" when undefined.
chosenProvider(requestedProvider) ==
    IF env.ALLOW_PROVIDER_OVERRIDE = "true" /\ requestedProvider # ""
    THEN requestedProvider
    ELSE normalizeProvider(env.LLM_PROVIDER)

\* completeChat up to the provider's fetch (lines 1629-1645).
completeChat(msgs, requestedProvider) ==
    IF chosenProvider(requestedProvider) = "openrouter"
    THEN callOpenRouter(msgs)
    ELSE callKoboldCpp(msgs)

\* completeChat once the provider or the timer has acted: the request still
\* pending, the ProviderResult, or the Error thrown.
completeChatAnswered(call, event, reply) ==
    LET result == IF call.provider = "openrouter"
                  THEN callOpenRouterAnswered(call, event, reply)
                  ELSE callKoboldCppAnswered(call, event, reply)
    IN  IF result.t = "str"
        THEN [t |-> "result", provider |-> call.provider, reply |-> result.s]
        ELSE result

\* What the provider can do to a pending request; the timer is apart.
providerEvents(call) ==
    IF call.phase = "fetch" THEN {"ok", "refused", "unreachable"}
    ELSE IF call.ok THEN {"completion"}
    ELSE {"details"}

\* The process environments the model runs the route in.
TxtApiKey ==
    <<"s","k","-","o","r","-","1">>
TxtBackupModelPadded ==
    <<" ","b","a","c","k","u","p","/","m","o","d","e","l"," ">>
TxtHalfSecond ==
    <<"5","0","0">>
TxtBePolitePadded ==
    <<" ","B","e"," ","p","o","l","i","t","e","."," ">>
Deployments ==
    { Deployment("", "true", <<>>, <<>>, <<>>, <<>>),
      Deployment("openrouter", "false", TxtApiKey, <<>>, <<>>, TxtBePolitePadded),
      Deployment("openrouter", "false", TxtApiKey, TxtBackupModelPadded, TxtHalfSecond, <<>>),
      Deployment("openrouter", "false", <<>>, <<>>, <<>>, <<>>) }

\* The completions the provider sends for the primary call.
PrimaryReplies == { TxtReply, <<>> }

Body(message, attachments, threadId) ==
    [t |-> "obj", message |-> message, attachments |-> attachments, threadId |-> threadId]

Bodies ==
    { Body(Str(TxtPreferTea), Undefined, Undefined),
      Body(Str(TxtPreferTea), Arr(<<>>), Str(TxtOwnThreadIdPadded)),
      Body(Str(TxtTeaOrJava),
           Arr(<<Str(TxtFileA), Num(5), Str(TxtBlank), Str(TxtFileB)>>),
           Str(TxtForeignThreadId)),
      Body(Str(TxtTeaOrJava), Str(TxtFileB), Str(TxtNotAUuid)),
      Body(Str(TxtTeaOrJava), Undefined, Str(TxtUnknownThreadId)),
      Body(Str(TxtBlank), Undefined, Undefined),
      Body(Num(5), Undefined, Str(TxtOwnThreadId)),
      [t |-> "invalid"] }

Requests == {[userId |-> "u1", body |-> body] : body \in Bodies}

InitialThreads ==
    << [id |-> TxtForeignThreadId, user_id |-> "u2", title |-> TxtOldChat,
        updated_at |-> IsoDay(80)],
       [id |-> TxtOwnThreadId, user_id |-> "u1", title |-> TxtOldChat,
        updated_at |-> IsoDay(90)] >>

\* The messages the thread of u1 holds before the turn: more than
\* toModelMessages passes on.
OwnHistoryLength == 21

InitialMessages ==
    << [id |-> 1, thread_id |-> TxtForeignThreadId, user_id |-> "u2", role |-> "user",
        content |-> TxtHi, attachments |-> Arr(<<>>)] >>
    \o [i \in 1..OwnHistoryLength |->
           [id |-> i + 1, thread_id |-> TxtOwnThreadId, user_id |-> "u1",
            role |-> IF i % 2 = 1 THEN "user" ELSE "assistant",
            content |-> IF i % 2 = 1 THEN TxtHi ELSE TxtReply,
            attachments |-> IF i % 4 = 1 THEN Arr(<<Str(TxtFileB)>>) ELSE Arr(<<>>)]]

SettingsRow(userId, guidance, memoryEnabled, autoMemoryEnabled) ==
    [user_id |-> userId, personalization_guidance |-> guidance,
     memory_enabled |-> memoryEnabled, auto_memory_enabled |-> autoMemoryEnabled,
     updated_at |-> IsoDay(50)]

InitialSettingsRows ==
    { <<>>,
      <<SettingsRow("u2", <<>>, Bool(TRUE), Bool(TRUE)),
        SettingsRow("u1", TxtBeBrief, Bool(FALSE), Bool(TRUE))>>,
      <<SettingsRow("u1", TxtBeBriefPadded, Bool(TRUE), Bool(FALSE))>>,
      <<SettingsRow("u1", <<>>, Null, Bool(TRUE))>> }

\* The row the store keeps for an upsert that sets no column but updated_at,
\* for a user without a row: the other columns take their defaults.
settingsRowInserted(row) ==
    [user_id |-> row.user_id, personalization_guidance |-> <<>>,
     memory_enabled |-> Bool(TRUE), auto_memory_enabled |-> Bool(TRUE),
     updated_at |-> row.updated_at]

MemoryRow(id, userId, content, source, confidence, day, active) ==
    [id |-> id, user_id |-> userId, content |-> content, kind |-> "preference",
     source |-> source, confidence |-> confidence, updated_at |-> IsoDay(day),
     last_used_at |-> Null, is_active |-> active]

InitialMemoryRows ==
    { <<>>,
      << MemoryRow(1, "u1", TxtLikesTea, "manual", 100, 90, TRUE),
         MemoryRow(2, "u1", TxtIsVegan, "auto", 90, 95, TRUE),
         MemoryRow(3, "u2", TxtOwnsCat, "manual", 100, 99, TRUE),
         MemoryRow(4, "u1", TxtUsesJavaTea, "auto", 80, 98, FALSE) >> }

QuotaRow(allowed) ==
    [t |-> "obj", allowed |-> allowed, role_name |-> Str(TxtCreator),
     used |-> Str(TxtFive), quota_limit |-> Num(5), remaining |-> Undefined]

Json(value) == [t |-> "json", value |-> value]

QuotaAnswers ==
    { StoreUnavailable,
      Refusal(TxtStatus404, TxtInvalidUuidSyntax),
      Json(Null), Json(Str(TxtFalse)), Json(Arr(<<>>)), Json(Arr(<<Num(1)>>)),
      Json(Arr(<<QuotaRow(Bool(TRUE))>>)),
      Json(Arr(<<QuotaRow(Bool(FALSE))>>)),
      Json(QuotaRow(Bool(FALSE))),
      Json(Arr(<<[t |-> "obj", role_name |-> Str(TxtVip)]>>)),
      Json(Arr(<<QuotaRow(Null)>>)),
      Json(Arr(<<QuotaRow(Num(0))>>)),
      Json(Arr(<<QuotaRow(Str(<<>>))>>)),
      Json(Arr(<<QuotaRow(Str(TxtFalse))>>)) }

\* Replies of the extractor: a fenced block between prose, an empty save
\* list, free text, a save that is an object, a reply cut before its closing
\* brace, and a top-level array.
ReplyFencedSave ==
    <<"H","e","r","e"," ","y","o","u"," ","g","o",":","\n",Grave,Grave,
      Grave,"j","s","o","n","\n","{","\"","s","a","v","e","\"",":","[","{",
      "\"","c","o","n","t","e","n","t","\"",":","\"","P","r","e","f","e",
      "r","s"," ","t","e","a","\"",",","\"","k","i","n","d","\"",":","\"",
      "p","r","e","f","e","r","e","n","c","e","\"",",","\"","c","o","n","f",
      "i","d","e","n","c","e","\"",":","0",".","9","}",",","\"","h","o","b",
      "b","y","\"",",","{","\"","c","o","n","t","e","n","t","\"",":","\"",
      " ","l","i","k","e","s"," "," ","T","E","A"," ","\"",",","\"","k","i",
      "n","d","\"",":","\"","h","o","b","b","y","\"",",","\"","c","o","n",
      "f","i","d","e","n","c","e","\"",":","\"","1","\"","}",",","{","\"",
      "c","o","n","t","e","n","t","\"",":","\"","I","s"," ","t","i","r","e",
      "d","\"",",","\"","k","i","n","d","\"",":","\"","o","t","h","e","r",
      "\"",",","\"","c","o","n","f","i","d","e","n","c","e","\"",":","0",
      ".","5","}","]","}","\n",Grave,Grave,Grave,"\n","D","o","n","e",".">>
ReplyEmptySave ==
    <<"{","\"","s","a","v","e","\"",":"," ","[","]","}">>
ReplyFreeText ==
    <<"N","o","t","h","i","n","g"," ","t","o"," ","s","a","v","e",".">>
ReplySaveObject ==
    <<"{","\"","s","a","v","e","\"",":"," ","{","\"","c","o","n","t","e",
      "n","t","\"",":","\"","P","r","e","f","e","r","s"," ","t","e","a",
      "\"",",","\"","c","o","n","f","i","d","e","n","c","e","\"",":","0",
      ".","9","}","}">>
ReplyTruncated ==
    <<"S","u","r","e"," ","{","\"","s","a","v","e","\"",":","[","{","\"",
      "c","o","n","t","e","n","t","\"",":","\"","O","w","n","s"," ","a"," ",
      "b","o","a","t","\"",",","\"","c","o","n","f","i","d","e","n","c","e",
      "\"",":","0",".","8","}","]">>
ReplyArray ==
    <<"[","{","\"","c","o","n","t","e","n","t","\"",":","\"","O","w","n",
      "s"," ","a"," ","b","o","a","t","\"",",","\"","c","o","n","f","i","d",
      "e","n","c","e","\"",":","0",".","9","}","]">>

ExtractionReplies ==
    { ReplyFencedSave, ReplyEmptySave, ReplyFreeText, ReplySaveObject, ReplyTruncated,
      ReplyArray }

(***************************************************************************)
(* POST /api/chat: one request served, step by step.  A step runs from the *)
(* answer to one awaited call up to the next awaited call or the response. *)
(***************************************************************************)
TxtMissingBearer ==
    <<"U","n","a","u","t","h","o","r","i","z","e","d","."," ","M","i","s",
      "s","i","n","g"," ","b","e","a","r","e","r"," ","t","o","k","e","n",
      ".">>
TxtInvalidSession ==
    <<"U","n","a","u","t","h","o","r","i","z","e","d","."," ","I","n","v",
      "a","l","i","d"," ","o","r"," ","e","x","p","i","r","e","d"," ","s",
      "e","s","s","i","o","n",".">>
TxtInvalidJson ==
    <<"I","n","v","a","l","i","d"," ","J","S","O","N"," ","p","a","y","l",
      "o","a","d",".">>
TxtMessageRequired ==
    <<"M","e","s","s","a","g","e"," ","i","s"," ","r","e","q","u","i","r",
      "e","d",".">>
TxtCutOff ==
    <<"Y","o","u","'","r","e"," ","c","u","t"," ","o","f","f","!"," ","G",
      "o"," ","o","u","t","s","i","d","e","."," ","T","o","u","c","h"," ",
      "s","o","m","e"," ","g","r","a","s","s",".">>
TxtMissingClerkKey ==
    <<"M","i","s","s","i","n","g"," ","C","L","E","R","K","_","S","E","C",
      "R","E","T","_","K","E","Y",".">>
TxtFetchChatFailed ==
    <<"F","a","i","l","e","d"," ","t","o"," ","f","e","t","c","h"," ","c",
      "h","a","t">>
TxtCreateChatFailed ==
    <<"F","a","i","l","e","d"," ","t","o"," ","c","r","e","a","t","e"," ",
      "c","h","a","t">>
TxtCreateChatEmpty ==
    <<"F","a","i","l","e","d"," ","t","o"," ","c","r","e","a","t","e"," ",
      "c","h","a","t",":"," ","e","m","p","t","y"," ","r","e","s","p","o",
      "n","s","e",".">>
TxtListMessagesFailed ==
    <<"F","a","i","l","e","d"," ","t","o"," ","l","i","s","t"," ","c","h",
      "a","t"," ","m","e","s","s","a","g","e","s">>
TxtSaveMessageFailed ==
    <<"F","a","i","l","e","d"," ","t","o"," ","s","a","v","e"," ","c","h",
      "a","t"," ","m","e","s","s","a","g","e">>
TxtSaveMessageEmpty ==
    <<"F","a","i","l","e","d"," ","t","o"," ","s","a","v","e"," ","c","h",
      "a","t"," ","m","e","s","s","a","g","e",":"," ","e","m","p","t","y",
      " ","r","e","s","p","o","n","s","e",".">>
TxtTouchThreadFailed ==
    <<"F","a","i","l","e","d"," ","t","o"," ","u","p","d","a","t","e"," ",
      "c","h","a","t"," ","t","i","m","e","s","t","a","m","p">>
\* json({ error }, { status })
errorResponse(status, message) == [status |-> status, error |-> message]

\* The handler returns `response`.
respond(frame, response) == [frame EXCEPT !.pc = "done", !.response = response]

\* The outer catch (lines 354-357): the thrown Error becomes a 500.
respondThrown(frame, error) == respond(frame, errorResponse(500, error.message))

\* Line 263: the denial test.
quotaNeverDenies(quota) == FALSE

quotaDenies(quota) == ~quota.allowed

\* Line 293: whether the memories are listed.
listsMemoriesAlways(userSettings) == TRUE

listsMemories(userSettings) == userSettings.memoryEnabled

\* Line 305: whether selectRelevantMemories is called.
selectsMemories(userSettings, memoryStorageAvailable) ==
    userSettings.memoryEnabled /\ memoryStorageAvailable

\* Line 321: whether touchMemories is dispatched.
touchesMemories(memoryStorageAvailable, userSettings, relevantMemories) ==
    memoryStorageAvailable /\ userSettings.memoryEnabled /\ Len(relevantMemories) > 0

\* Variant of extractsMemories that leaves out memoryStorageAvailable.
extractsMemoriesDespiteFailure(memoryStorageAvailable, userSettings, message) ==
    /\ userSettings.memoryEnabled
    /\ userSettings.autoMemoryEnabled
    /\ shouldAttemptAutoMemoryCapture(message)

\* Variant of extractsMemories that leaves out autoMemoryEnabled.
extractsMemoriesWithoutOptIn(memoryStorageAvailable, userSettings, message) ==
    /\ memoryStorageAvailable
    /\ userSettings.memoryEnabled
    /\ shouldAttemptAutoMemoryCapture(message)

\* Lines 330-335: whether the extraction is dispatched.
extractsMemories(memoryStorageAvailable, userSettings, message) ==
    /\ memoryStorageAvailable
    /\ userSettings.memoryEnabled
    /\ userSettings.autoMemoryEnabled
    /\ shouldAttemptAutoMemoryCapture(message)

\* Lines 299-301: the settings the catch block leaves.
settingsResetOnAnyError(error, userSettings, userId, nowIso) ==
    defaultUserSettings(userId, nowIso)

settingsAfterMemoryError(error, userSettings, userId, nowIso) ==
    IF ~isMemorySchemaMissingError(error) THEN defaultUserSettings(userId, nowIso)
    ELSE userSettings

\* Lines 296-302: the catch block of the settings/memory load.
afterMemoryError(frame, error) ==
    [frame EXCEPT !.memoryStorageAvailable = FALSE,
                  !.userSettings = settingsAfterMemoryError(error, frame.userSettings,
                                                            frame.userId, IsoDay(now))]

\* Lines 313-315: the composer's block, when there is one, goes before the
\* history.
messagesForModel(settingsSystemPrompt, modelMessages) ==
    IF ToBoolean(settingsSystemPrompt)
    THEN <<[role |-> "system", content |-> settingsSystemPrompt.s]>> \o modelMessages
    ELSE modelMessages

\* Lines 313-316: the completion is requested with the messages for the model.
composedRequest(frame, relevantMemories, settingsSystemPrompt) ==
    [frame EXCEPT !.relevantMemories = relevantMemories,
                  !.settingsSystemPrompt = settingsSystemPrompt,
                  !.messagesForModel =
                      messagesForModel(settingsSystemPrompt, frame.modelMessages),
                  !.call = completeChat(messagesForModel(settingsSystemPrompt,
                                                         frame.modelMessages), ""),
                  !.pc = "completeChat"]

\* Lines 308-311: the system prompt is composed from the guidance and the
\* contents of the relevant memories.
composedPrompt(frame, relevantMemories) ==
    composedRequest(frame, relevantMemories,
                    buildSettingsSystemPrompt(frame.userSettings.personalizationGuidance,
                                              [i \in 1..Len(relevantMemories) |->
                                                  relevantMemories[i].content]))

\* Lines 304-316: the memories are selected, the system prompt composed and the
\* completion requested.
composed(frame) ==
    composedPrompt(frame,
                   IF selectsMemories(frame.userSettings, frame.memoryStorageAvailable)
                   THEN selectRelevantMemories(frame.userMemories, frame.message,
                                               MAX_MEMORY_PROMPT_ENTRIES, now)
                   ELSE <<>>)

composedCalls(frame) ==
    IF selectsMemories(frame.userSettings, frame.memoryStorageAvailable)
    THEN <<"selectRelevantMemories", "completeChat">>
    ELSE <<"completeChat">>

\* Variant of messageOf that does not trim.
messageUntrimmed(body) ==
    IF body.t = "obj" /\ Property(body, "message").t = "str"
    THEN Property(body, "message").s ELSE <<>>

\* Line 250: the message of the body, '' when it is no string.
messageOf(body) ==
    IF body.t = "obj" /\ Property(body, "message").t = "str"
    THEN trim(Property(body, "message").s) ELSE <<>>

\* Lines 226-262: the request is authenticated and its body read.  The session
\* check answers in one of four ways, whatever the body is.
Receive ==
    /\ turn.pc = "idle"
    /\ \E session \in {"no-token", "throws", "no-user", "user"} :
          LET body        == request.body
              message     == messageOf(body)
              attachments == normalizeAttachments(Property(body, "attachments"))
              threadId    == IF Property(body, "threadId").t = "str"
                             THEN trim(Property(body, "threadId").s) ELSE <<>>
          IN  IF session = "no-token"
              THEN /\ turn' = respond(turn, errorResponse(401, TxtMissingBearer))
                   /\ UNCHANGED callLog
              ELSE IF session = "throws"
              THEN /\ turn' = respond(turn, errorResponse(500, TxtMissingClerkKey))
                   /\ UNCHANGED callLog
              ELSE IF session = "no-user"
              THEN /\ turn' = respond(turn, errorResponse(401, TxtInvalidSession))
                   /\ UNCHANGED callLog
              ELSE IF body.t = "invalid"
              THEN /\ turn' = respond([turn EXCEPT !.userId = request.userId],
                                      errorResponse(400, TxtInvalidJson))
                   /\ UNCHANGED callLog
              ELSE IF message = <<>>
              THEN /\ turn' = respond([turn EXCEPT !.userId = request.userId],
                                      errorResponse(400, TxtMessageRequired))
                   /\ UNCHANGED callLog
              ELSE /\ turn' = [turn EXCEPT !.userId = request.userId,
                                           !.message = message,
                                           !.attachments = attachments,
                                           !.threadId = threadId,
                                           !.pc = "consumeDailyQuota"]
                   /\ callLog' = Append(callLog, "consumeDailyQuota")
    /\ UNCHANGED <<now, aloneVars, selVars, mergeVars, chatVars, settingsRows, request,
                   env, consoleErrors, providerLog, quotaAnswer, loadedSettings,
                   memoryError, touchTasks, extractions>>

\* The frame once the thread is known: addMessageToThread for the user's message
\* is called (line 282); it throws at once on an id that is no UUID.
withThread(frame, thread) ==
    LET row == addMessageRow(frame.userId, thread.id, "user", frame.message,
                             frame.attachments)
    IN  IF IsError(row) THEN respondThrown([frame EXCEPT !.thread = thread], row)
        ELSE [frame EXCEPT !.thread = thread, !.pc = "addUserMessage"]

\* Lines 262-280: the quota RPC answers; the turn is denied, or the thread is
\* looked up (getThreadForUser returns null at once on an id that is no UUID)
\* or created.
ConsumeQuota ==
    /\ turn.pc = "consumeDailyQuota"
    /\ \E answer \in QuotaAnswers :
          LET quota == consumeDailyQuota(answer)
          IN  /\ quotaAnswer' = answer
              /\ IF IsError(quota)
                 THEN /\ turn' = respondThrown(turn, quota)
                      /\ UNCHANGED callLog
                 ELSE IF quotaDenies(quota)
                 THEN /\ turn' = respond([turn EXCEPT !.quota = quota],
                                         [status |-> 429, error |-> TxtCutOff,
                                          quota |-> quota])
                      /\ UNCHANGED callLog
                 ELSE IF Len(turn.threadId) > 0 /\ isUuid(turn.threadId)
                 THEN /\ turn' = [turn EXCEPT !.quota = quota, !.pc = "getThreadForUser"]
                      /\ callLog' = Append(callLog, "getThreadForUser")
                 ELSE /\ turn' = [turn EXCEPT !.quota = quota, !.pc = "createThreadForUser"]
                      /\ callLog' = callLog \o
                             (IF Len(turn.threadId) > 0 THEN <<"getThreadForUser">> ELSE <<>>)
                             \o <<"createThreadForUser">>
    /\ UNCHANGED <<now, aloneVars, selVars, mergeVars, chatVars, settingsRows, request,
                   env, consoleErrors, providerLog, loadedSettings, memoryError,
                   touchTasks, extractions>>

\* Lines 275-282: the thread query answers.
GetThread ==
    /\ turn.pc = "getThreadForUser"
    /\ \E outcome \in {"answered", "refused"} :
          LET payload == threadQueryAnswer(threads, turn.userId, turn.threadId)
          IN  IF outcome = "refused"
              THEN /\ turn' = respondThrown(turn,
                                  Error(FailureMessage(TxtFetchChatFailed, StoreUnavailable)))
                   /\ UNCHANGED callLog
              ELSE IF Len(payload) = 0
              THEN /\ turn' = [turn EXCEPT !.pc = "createThreadForUser"]
                   /\ callLog' = Append(callLog, "createThreadForUser")
              ELSE /\ turn' = withThread(turn, parseThreadRow(payload[1]))
                   /\ callLog' = Append(callLog, "addMessageToThread")
    /\ UNCHANGED <<now, aloneVars, selVars, mergeVars, chatVars, settingsRows, request,
                   env, consoleErrors, providerLog, quotaAnswer, loadedSettings,
                   memoryError, touchTasks, extractions>>

\* Lines 279-282: the insert of the thread answers.  The store assigns the id;
\* an insert whose answer is empty has still created the row.
CreateThread ==
    /\ turn.pc = "createThreadForUser"
    /\ \E outcome \in {"created", "created-empty-answer", "refused"} :
          LET row == [id |-> NewThreadId, user_id |-> turn.userId,
                      title |-> normalizeThreadTitle(normalizeThreadTitle(turn.message)),
                      updated_at |-> IsoDay(now)]
          IN  /\ threads' = IF outcome = "refused" THEN threads ELSE Append(threads, row)
              /\ IF outcome = "refused"
                 THEN /\ turn' = respondThrown(turn,
                                    Error(FailureMessage(TxtCreateChatFailed, StoreUnavailable)))
                      /\ UNCHANGED callLog
                 ELSE IF outcome = "created-empty-answer"
                 THEN /\ turn' = respondThrown(turn, Error(TxtCreateChatEmpty))
                      /\ UNCHANGED callLog
                 ELSE /\ turn' = withThread(turn, parseThreadRow(row))
                      /\ callLog' = Append(callLog, "addMessageToThread")
    /\ UNCHANGED <<now, aloneVars, selVars, mergeVars, messages, settingsRows, request,
                   env, consoleErrors, providerLog, quotaAnswer, loadedSettings,
                   memoryError, touchTasks, extractions>>

\* Variant of addMessageToThreadThrown in which no failure is raised.
addMessageToThreadNeverThrows(outcome) == Null

\* Lines 243-258 of chats.ts: the Error addMessageToThread throws once the
\* insert has answered, Null when it returns the stored message.
addMessageToThreadThrown(outcome) ==
    IF outcome = "refused"
    THEN Error(FailureMessage(TxtSaveMessageFailed, StoreUnavailable))
    ELSE IF outcome = "created-empty-answer"
    THEN Error(TxtSaveMessageEmpty)
    ELSE Null

\* Lines 282-284: the insert of the user's message answers.
AddUserMessage ==
    /\ turn.pc = "addUserMessage"
    /\ \E outcome \in {"created", "created-empty-answer", "refused"} :
          LET row == addMessageRow(turn.userId, turn.thread.id, "user", turn.message,
                                   turn.attachments)
          IN  /\ messages' = IF outcome = "refused" THEN messages
                             ELSE Append(messages, storedMessageRow(row, Len(messages) + 1))
              /\ IF IsError(addMessageToThreadThrown(outcome))
                 THEN /\ turn' = respondThrown(turn, addMessageToThreadThrown(outcome))
                      /\ UNCHANGED callLog
                 ELSE /\ turn' = [turn EXCEPT !.pc = "listMessagesForThread"]
                      /\ callLog' = Append(callLog, "listMessagesForThread")
    /\ UNCHANGED <<now, aloneVars, selVars, mergeVars, threads, settingsRows, request,
                   env, consoleErrors, providerLog, quotaAnswer, loadedSettings,
                   memoryError, touchTasks, extractions>>

\* Lines 284-292: the message query answers; the defaults of the memory load are
\* set and the settings requested.
ListMessages ==
    /\ turn.pc = "listMessagesForThread"
    /\ \E outcome \in {"answered", "refused"} :
          LET persistedMessages ==
                  parseMessageRows(messageQueryAnswer(messages, turn.userId, turn.thread.id))
          IN  IF outcome = "refused"
              THEN /\ turn' = respondThrown(turn,
                                  Error(FailureMessage(TxtListMessagesFailed, StoreUnavailable)))
                   /\ UNCHANGED callLog
              ELSE /\ turn' = [turn EXCEPT
                                  !.modelMessages = toModelMessages(persistedMessages),
                                  !.memoryStorageAvailable = TRUE,
                                  !.userSettings = defaultUserSettings(turn.userId, IsoDay(now)),
                                  !.userMemories = <<>>,
                                  !.pc = "getOrCreateUserSettings"]
                   /\ callLog' = Append(callLog, "getOrCreateUserSettings")
    /\ UNCHANGED <<now, aloneVars, selVars, mergeVars, chatVars, settingsRows, request,
                   env, consoleErrors, providerLog, quotaAnswer, loadedSettings,
                   memoryError, touchTasks, extractions>>

\* Lines 292-316 once getOrCreateUserSettings has returned `settings`.
SettingsLoaded(settings) ==
    /\ loadedSettings' = settings
    /\ UNCHANGED memoryError
    /\ IF listsMemories(settings)
       THEN /\ turn' = [turn EXCEPT !.userSettings = settings, !.pc = "listUserMemories"]
            /\ callLog' = Append(callLog, "listUserMemories")
       ELSE /\ turn' = composed([turn EXCEPT !.userSettings = settings])
            /\ callLog' = callLog \o composedCalls([turn EXCEPT !.userSettings = settings])

\* Lines 296-316 once the load has thrown `error` in the call `from`.
MemoryLoadFailed(from, error) ==
    /\ memoryError' = [t |-> "caught", from |-> from, error |-> error]
    /\ turn' = composed(afterMemoryError(turn, error))
    /\ callLog' = callLog \o composedCalls(afterMemoryError(turn, error))

\* getOrCreateUserSettings, lines 228-246 of user-settings.ts: the settings query
\* answers.
GetSettings ==
    /\ turn.pc = "getOrCreateUserSettings"
    /\ \E answer \in {[t |-> "json"], StoreUnavailable, SettingsTableMissing} :
          LET payload == settingsQueryAnswer(settingsRows, turn.userId)
          IN  IF answer.t = "refusal"
              THEN /\ MemoryLoadFailed("getOrCreateUserSettings",
                                       Error(FailureMessage(TxtFetchSettingsFailed, answer)))
                   /\ UNCHANGED loadedSettings
              ELSE IF Len(payload) > 0
              THEN SettingsLoaded(parseSettingsRow(payload[1]))
              ELSE /\ turn' = [turn EXCEPT !.pc = "upsertUserSettings"]
                   /\ UNCHANGED <<callLog, loadedSettings, memoryError>>
    /\ UNCHANGED <<now, aloneVars, selVars, mergeVars, chatVars, settingsRows, request,
                   env, consoleErrors, providerLog, quotaAnswer, touchTasks,
                   extractions>>

\* upsertUserSettings(userId, {}), lines 249-301 of user-settings.ts: the upsert
\* answers.  A user without a row gets one with the columns' defaults.
UpsertSettings ==
    /\ turn.pc = "upsertUserSettings"
    /\ \E answer \in {[t |-> "json"], [t |-> "empty-json"], StoreUnavailable,
                      SettingsTableMissing} :
          LET row == settingsRowInserted(upsertSettingsRow(turn.userId, IsoDay(now)))
          IN  IF answer.t = "refusal"
              THEN /\ MemoryLoadFailed("getOrCreateUserSettings",
                                       Error(FailureMessage(TxtUpdateSettingsFailed, answer)))
                   /\ UNCHANGED <<loadedSettings, settingsRows>>
              ELSE /\ settingsRows' = Append(settingsRows, row)
                   /\ IF answer.t = "empty-json"
                      THEN /\ MemoryLoadFailed("getOrCreateUserSettings",
                                               Error(TxtUpdateSettingsEmpty))
                           /\ UNCHANGED loadedSettings
                      ELSE SettingsLoaded(parseSettingsRow(row))
    /\ UNCHANGED <<now, aloneVars, selVars, mergeVars, chatVars, request, env,
                   consoleErrors,
                   providerLog, quotaAnswer, touchTasks, extractions>>

\* Lines 294-316: listUserMemories(user.id, 80) answers.
ListMemories ==
    /\ turn.pc = "listUserMemories"
    /\ \/ \E payload \in listQueryAnswers(memRows, turn.userId, MEMORY_LIST_LIMIT) :
             /\ turn' = composed([turn EXCEPT !.userMemories = parseMemoryRows(payload)])
             /\ callLog' = callLog \o
                    composedCalls([turn EXCEPT !.userMemories = parseMemoryRows(payload)])
             /\ UNCHANGED memoryError
       \/ \E answer \in {StoreUnavailable, MemoriesTableMissing} :
             MemoryLoadFailed("listUserMemories",
                              Error(FailureMessage(TxtListMemoriesFailed, answer)))
    /\ UNCHANGED <<now, aloneVars, selVars, mergeVars, chatVars, settingsRows, request,
                   env, consoleErrors, providerLog, quotaAnswer, loadedSettings,
                   touchTasks, extractions>>

\* Lines 316-318: the provider or the abort timer acts on the primary call.
PrimaryAnswered(event, reply) ==
    \E result \in {completeChatAnswered(turn.call, event, reply)} :
        /\ providerLog' = Append(providerLog,
                                 [call |-> "primary", event |-> event, reply |-> reply])
        /\ IF IsError(result)
           THEN /\ turn' = respondThrown(turn, result)
                /\ UNCHANGED callLog
           ELSE IF result.t = "request"
           THEN /\ turn' = [turn EXCEPT !.call = result]
                /\ UNCHANGED callLog
           ELSE LET completion == [reply |-> result.reply, provider |-> result.provider]
                    row == addMessageRow(turn.userId, turn.thread.id, "assistant",
                                         completion.reply, <<>>)
                IN  /\ turn' = IF IsError(row)
                               THEN respondThrown([turn EXCEPT !.completion = completion], row)
                               ELSE [turn EXCEPT !.completion = completion,
                                                 !.pc = "addAssistantMessage"]
                    /\ callLog' = Append(callLog, "addMessageToThread")
        /\ UNCHANGED <<now, aloneVars, selVars, mergeVars, chatVars, settingsRows,
                       request, env,
                       consoleErrors, quotaAnswer, loadedSettings, memoryError, touchTasks,
                       extractions>>

\* Line 316: the provider acts on the primary call, or the call has thrown
\* before any request was sent.
CompleteChat ==
    /\ turn.pc = "completeChat"
    /\ IF IsError(turn.call)
       THEN /\ turn' = respondThrown(turn, turn.call)
            /\ UNCHANGED <<now, aloneVars, selVars, mergeVars, chatVars, settingsRows,
                           request, env,
                           consoleErrors, ghostVars, touchTasks, extractions>>
       ELSE \E event \in providerEvents(turn.call) :
               \E reply \in (IF event = "completion" THEN PrimaryReplies ELSE {<<>>}) :
                  PrimaryAnswered(event, reply)

\* Lines 1529-1531 of chat-providers.ts: the abort timer of the primary call
\* fires.
CompleteChatTimeout ==
    /\ turn.pc = "completeChat"
    /\ turn.call.t = "request"
    /\ turn.call.timer
    /\ PrimaryAnswered("timeout", <<>>)

\* Lines 318-319: the insert of the assistant's message answers.
AddAssistantMessage ==
    /\ turn.pc = "addAssistantMessage"
    /\ \E outcome \in {"created", "created-empty-answer", "refused"} :
          LET row == addMessageRow(turn.userId, turn.thread.id, "assistant",
                                   turn.completion.reply, <<>>)
          IN  /\ messages' = IF outcome = "refused" THEN messages
                             ELSE Append(messages, storedMessageRow(row, Len(messages) + 1))
              /\ IF IsError(addMessageToThreadThrown(outcome))
                 THEN /\ turn' = respondThrown(turn, addMessageToThreadThrown(outcome))
                      /\ UNCHANGED callLog
                 ELSE /\ turn' = [turn EXCEPT !.pc = "touchThread"]
                      /\ callLog' = Append(callLog, "touchThread")
    /\ UNCHANGED <<now, aloneVars, selVars, mergeVars, threads, settingsRows, request,
                   env, consoleErrors, providerLog, quotaAnswer, loadedSettings,
                   memoryError, touchTasks, extractions>>

\* touchMemories up to its first request (lines 409-416 of user-settings.ts).
newTouch(userId, memoryIds) ==
    LET ids == uniqueIds(memoryIds)
    IN  [userId |-> userId, ids |-> ids, patched |-> 0,
         status |-> IF Len(ids) = 0 THEN "done" ELSE "patching", error |-> Null]

\* AUTO_MEMORY_SYSTEM_PROMPT (lines 37-52 of +server.ts).
AUTO_MEMORY_SYSTEM_PROMPT ==
    <<"Y","o","u"," ","e","x","t","r","a","c","t"," ","l","o","n","g","-",
      "t","e","r","m"," ","u","s","e","r"," ","m","e","m","o","r","y"," ",
      "f","o","r"," ","a","n"," ","A","I"," ","a","s","s","i","s","t","a",
      "n","t",".","\n","O","n","l","y"," ","s","a","v","e"," ","s","t","a",
      "b","l","e"," ","f","a","c","t","s","/","p","r","e","f","e","r","e",
      "n","c","e","s"," ","t","h","a","t"," ","s","h","o","u","l","d"," ",
      "p","e","r","s","i","s","t"," ","a","c","r","o","s","s"," ","f","u",
      "t","u","r","e"," ","c","h","a","t","s",".","\n","D","o"," ","N","O",
      "T"," ","s","a","v","e"," ","t","e","m","p","o","r","a","r","y"," ",
      "r","e","q","u","e","s","t","s",","," ","o","n","e","-","o","f","f",
      " ","t","a","s","k","s",","," ","o","r"," ","s","e","n","s","i","t",
      "i","v","e"," ","s","e","c","r","e","t","s",".","\n","\n","R","e","t",
      "u","r","n"," ","s","t","r","i","c","t"," ","J","S","O","N"," ","o",
      "n","l","y"," ","w","i","t","h"," ","t","h","i","s"," ","s","h","a",
      "p","e",":","\n","{","\n"," "," ","\"","s","a","v","e","\"",":"," ",
      "[","{","\"","c","o","n","t","e","n","t","\"",":","\"","s","t","r",
      "i","n","g","\"",",","\"","k","i","n","d","\"",":","\"","p","r","e",
      "f","e","r","e","n","c","e","|","p","r","o","f","i","l","e","|","p",
      "r","o","j","e","c","t","|","o","t","h","e","r","\"",",","\"","c","o",
      "n","f","i","d","e","n","c","e","\"",":","0",".","0","}","]",",","\n",
      " "," ","\"","d","e","l","e","t","e","\"",":"," ","[","\"","o","p",
      "t","i","o","n","a","l"," ","o","l","d"," ","m","e","m","o","r","y",
      " ","t","e","x","t"," ","t","o"," ","r","e","m","o","v","e"," ","i",
      "f"," ","c","o","n","t","r","a","d","i","c","t","e","d","\"","]","\n",
      "}","\n","\n","R","u","l","e","s",":","\n","-"," ","K","e","e","p",
      " ","e","a","c","h"," ","\"","c","o","n","t","e","n","t","\""," ","c",
      "o","n","c","i","s","e"," ","a","n","d"," ","s","t","a","n","d","a",
      "l","o","n","e",".","\n","-"," ","U","s","e"," ","c","o","n","f","i",
      "d","e","n","c","e"," ","f","r","o","m"," ","0",".","0"," ","t","o",
      " ","1",".","0",".","\n","-"," ","I","f"," ","n","o","t","h","i","n",
      "g"," ","s","h","o","u","l","d"," ","b","e"," ","s","t","o","r","e",
      "d",","," ","r","e","t","u","r","n"," ","{","\"","s","a","v","e","\"",
      ":","[","]",",","\"","d","e","l","e","t","e","\"",":","[","]","}",".">>

TxtUserMessageHead ==
    <<"U","s","e","r"," ","m","e","s","s","a","g","e",":","\n">>
TxtAssistantReplyHead ==
    <<"A","s","s","i","s","t","a","n","t"," ","r","e","p","l","y",":","\n">>
TxtCurrentTimestamp ==
    <<"C","u","r","r","e","n","t"," ","U","T","C"," ","t","i","m","e","s",
      "t","a","m","p",":"," ">>
TxtReturnJsonOnly ==
    <<"R","e","t","u","r","n"," ","J","S","O","N"," ","o","n","l","y",".">>
TxtMidnight ==
    <<"T","0","0",":","0","0",":","0","0",".","0","0","0","Z">>

\* date.toISOString() for the dates of the model, which are whole days.
toISOString(date) == <<"d","a","y","-">> \o DecimalText(date.day) \o TxtMidnight

\* Lines 202-218: the messages of the extraction call.
extractionMessages(userMessage, assistantReply, nowIso) ==
    << [role |-> "system", content |-> AUTO_MEMORY_SYSTEM_PROMPT],
       [role |-> "user",
        content |-> join(<< TxtUserMessageHead \o userMessage,
                            TxtAssistantReplyHead \o assistantReply,
                            TxtCurrentTimestamp \o toISOString(nowIso),
                            TxtReturnJsonOnly >>, <<"\n", "\n">>)] >>

\* extractAutoMemoryCandidates up to its request (lines 197-220).
newExtraction(userMessage, assistantReply, provider, existingMemories, call) ==
    [userMessage |-> userMessage, assistantReply |-> assistantReply,
     provider |-> provider, existing |-> existingMemories, call |-> call,
     status |-> IF IsError(call) THEN "failed" ELSE "requested",
     error |-> IF IsError(call) THEN call ELSE Null, reply |-> <<>>]

\* Lines 319-353: the update of the thread answers; the background tasks are
\* dispatched and the reply returned.
TouchThread ==
    /\ turn.pc = "touchThread"
    /\ \E outcome \in {"updated", "refused"} :
          IF outcome = "refused"
          THEN /\ turn' = respondThrown(turn,
                              Error(FailureMessage(TxtTouchThreadFailed, StoreUnavailable)))
               /\ UNCHANGED <<threads, callLog, touchTasks, extractions>>
          ELSE LET touching   == touchesMemories(turn.memoryStorageAvailable,
                                                 turn.userSettings, turn.relevantMemories)
                   extracting == extractsMemories(turn.memoryStorageAvailable,
                                                  turn.userSettings, turn.message)
               IN  /\ threads' = [i \in 1..Len(threads) |->
                                     IF threads[i].id = turn.thread.id
                                     THEN [threads[i] EXCEPT !.updated_at = IsoDay(now)]
                                     ELSE threads[i]]
                   /\ touchTasks' =
                          IF touching
                          THEN touchTasks \cup
                               {newTouch(turn.userId,
                                         [i \in 1..Len(turn.relevantMemories) |->
                                             turn.relevantMemories[i].id])}
                          ELSE touchTasks
                   /\ extractions' =
                          IF extracting
                          THEN extractions \cup
                               {newExtraction(turn.message, turn.completion.reply,
                                              turn.completion.provider, turn.userMemories,
                                              completeChat(
                                                  extractionMessages(turn.message,
                                                      turn.completion.reply, IsoDay(now)),
                                                  turn.completion.provider))}
                          ELSE extractions
                   /\ callLog' = callLog
                          \o (IF touching THEN <<"touchMemories">> ELSE <<>>)
                          \o (IF extracting THEN <<"extractAutoMemoryCandidates">> ELSE <<>>)
                   /\ turn' = respond(turn,
                                 [status |-> 200, reply |-> turn.completion.reply,
                                  provider |-> turn.completion.provider,
                                  quota |-> turn.quota, threadId |-> turn.thread.id])
    /\ UNCHANGED <<now, aloneVars, selVars, mergeVars, messages, settingsRows, request,
                   env, consoleErrors, providerLog, quotaAnswer, loadedSettings,
                   memoryError>>

\* Variant of touchedRows without the is_active filter.
touchedRowsAnyState(rows, userId, id, day) ==
    [i \in 1..Len(rows) |->
        IF rows[i].id = id /\ rows[i].user_id = userId
        THEN [rows[i] EXCEPT !.last_used_at = IsoDay(day), !.updated_at = IsoDay(day)]
        ELSE rows[i]]

\* Lines 418-431 of user-settings.ts: the rows after the PATCH of
\* touchMemories, which matches on id, user_id and is_active.
touchedRows(rows, userId, id, day) ==
    [i \in 1..Len(rows) |->
        IF rows[i].id = id /\ rows[i].user_id = userId /\ rows[i].is_active
        THEN [rows[i] EXCEPT !.last_used_at = IsoDay(day), !.updated_at = IsoDay(day)]
        ELSE rows[i]]

\* touchMemories, lines 418-437 of user-settings.ts: the next PATCH answers.
TouchPatch(task) ==
    /\ task.status = "patching"
    /\ \E outcome \in {"patched", "refused"} :
          LET id == task.ids[task.patched + 1]
          IN  IF outcome = "refused"
              THEN /\ touchTasks' = (touchTasks \ {task}) \cup
                          {[task EXCEPT !.status = "failed",
                                        !.error = Error(FailureMessage(TxtTouchMemoryFailed,
                                                                       StoreUnavailable))]}
                   /\ UNCHANGED memRows
              ELSE /\ memRows' = touchedRows(memRows, task.userId, id, now)
                   /\ touchTasks' = (touchTasks \ {task}) \cup
                          {[task EXCEPT !.patched = task.patched + 1,
                                        !.status = IF task.patched + 1 = Len(task.ids)
                                                   THEN "done" ELSE "patching"]}
    /\ UNCHANGED <<now, aloneVars, selVars, merges, chatVars, settingsRows, request,
                   env, consoleErrors, turn, ghostVars, extractions>>

\* Lines 220-222 and 337-345: the provider or the abort timer acts on the
\* extraction's call.  `payload` is what parseJsonObjectFromText makes of the
\* reply; mergeAutoMemories is called with the memories the turn listed.
ExtractionAnswered(task, event, reply, payload) ==
    \E result \in {completeChatAnswered(task.call, event, reply)} :
        /\ providerLog' = Append(providerLog,
                                 [call |-> "extraction", event |-> event, reply |-> reply])
        /\ IF IsError(result)
           THEN /\ extractions' = (extractions \ {task}) \cup
                                      {[task EXCEPT !.status = "failed", !.error = result]}
                /\ UNCHANGED merges
           ELSE IF result.t = "request"
           THEN /\ extractions' = (extractions \ {task}) \cup {[task EXCEPT !.call = result]}
                /\ UNCHANGED merges
           ELSE LET candidates == parseAutoMemoryCandidates(payload)
                IN  /\ extractions' = (extractions \ {task}) \cup
                                          {[task EXCEPT !.status = "done",
                                                        !.reply = result.reply]}
                    /\ merges' = IF Len(candidates) = 0 THEN merges
                                 ELSE merges \cup
                                      {newMerge(Cardinality(merges) + 1, turn.userId,
                                                candidates, task.existing)}
        /\ UNCHANGED <<now, aloneVars, selVars, memRows, chatVars, settingsRows,
                       request, env,
                       consoleErrors, turn, callLog, quotaAnswer, loadedSettings,
                       memoryError, touchTasks>>

\* Lines 220-221: the provider acts on the extraction's call, and
\* parseJsonObjectFromText reads its reply.
ExtractionReturns(task) ==
    /\ task.status = "requested"
    /\ \E event \in providerEvents(task.call) :
          IF event = "completion"
          THEN \E reply \in ExtractionReplies \cup {<<>>} :
                  \E payload \in {parseJsonObjectFromText(reply)} :
                      ExtractionAnswered(task, event, reply, payload)
          ELSE ExtractionAnswered(task, event, <<>>, Null)

\* Lines 1529-1531 of chat-providers.ts: the abort timer of the extraction's
\* call fires.
ExtractionTimeout(task) ==
    /\ task.status = "requested"
    /\ task.call.timer
    /\ ExtractionAnswered(task, "timeout", <<>>, Null)

\* user-settings.ts lines 385-399: the rows after the PATCH of
\* deactivateUserMemory, which matches on id, user_id and is_active.
deactivatedRows(rows, userId, memoryId, day) ==
    [i \in 1..Len(rows) |->
        IF rows[i].id = memoryId /\ rows[i].user_id = userId /\ rows[i].is_active
        THEN [rows[i] EXCEPT !.is_active = FALSE, !.updated_at = IsoDay(day)]
        ELSE rows[i]]

\* user-settings.ts lines 380-407: what deactivateUserMemory returns.
deactivateUserMemory(rows, userId, memoryId) ==
    IF memoryId <= 0 THEN FALSE
    ELSE \E i \in 1..Len(rows) :
            rows[i].id = memoryId /\ rows[i].user_id = userId /\ rows[i].is_active

\* The calls of deactivateUserMemory other requests make while the turn runs.
DeactivateCalls ==
    { [userId |-> "u1", memoryId |-> 1], [userId |-> "u1", memoryId |-> 3],
      [userId |-> "u1", memoryId |-> 0] }

\* user-settings.ts lines 380-407: a call of deactivateUserMemory that
\* returns true.  A call that returns false leaves every row as it is.
DeactivateMemory(userId, memoryId) ==
    /\ deactivateUserMemory(memRows, userId, memoryId)
    /\ memRows' = deactivatedRows(memRows, userId, memoryId, now)
    /\ UNCHANGED <<now, aloneVars, selVars, merges, turnVars>>

\* The background tasks of a turn, by the function that runs them.
BackgroundTasks == {"touchMemories", "extractAutoMemoryCandidates", "mergeAutoMemories"}

\* The promise of the background task has been rejected.
rejected(source) ==
    IF source = "touchMemories" THEN \E task \in touchTasks : task.status = "failed"
    ELSE IF source = "extractAutoMemoryCandidates"
    THEN \E task \in extractions : task.status = "failed"
    ELSE \E m \in merges : m.status = "failed"

\* Variant of afterBackgroundError in which the failure reaches the response.
failedByBackgroundError(frame) == respond(frame, errorResponse(500, TxtTouchMemoryFailed))

\* Lines 325-327 and 343-345: what the catch callback of a background task
\* leaves of the handler's activation.
afterBackgroundError(frame) == frame

\* Lines 325-327 and 343-345: the catch callback of a rejected background
\* task prints the error.
CatchBackgroundError(source) ==
    /\ rejected(source)
    /\ source \notin consoleErrors
    /\ consoleErrors' = consoleErrors \cup {source}
    /\ turn' = afterBackgroundError(turn)
    /\ UNCHANGED <<now, aloneVars, selVars, mergeVars, chatVars, settingsRows, request,
                   env, ghostVars, touchTasks, extractions>>

Init ==
    /\ now = 100
    /\ selInput = <<>>
    /\ selMemories = <<>>
    /\ selPrompt = <<>>
    /\ selLimit = 0
    /\ selResults = <<>>
    /\ memRows \in InitialMemoryRows
    /\ merges = {}
    /\ threads = InitialThreads
    /\ messages = InitialMessages
    /\ settingsRows \in InitialSettingsRows
    /\ request \in Requests
    /\ env \in Deployments
    /\ providerLog = <<>>
    /\ consoleErrors = {}
    /\ turn = idleTurn
    /\ callLog = <<>>
    /\ quotaAnswer = Null
    /\ loadedSettings = Null
    /\ memoryError = Null
    /\ touchTasks = {}
    /\ extractions = {}
    /\ NoAlone

Next ==
    \/ Receive
    \/ ConsumeQuota
    \/ GetThread
    \/ CreateThread
    \/ AddUserMessage
    \/ ListMessages
    \/ GetSettings
    \/ UpsertSettings
    \/ ListMemories
    \/ CompleteChat
    \/ CompleteChatTimeout
    \/ AddAssistantMessage
    \/ TouchThread
    \/ \E task \in touchTasks : TouchPatch(task)
    \/ \E task \in extractions : ExtractionReturns(task)
    \/ \E task \in extractions : ExtractionTimeout(task)
    \/ \E source \in BackgroundTasks : CatchBackgroundError(source)
    \/ \E call \in DeactivateCalls : DeactivateMemory(call.userId, call.memoryId)
    \/ \E m \in merges : MergeBegin(m)
    \/ \E m \in merges : MergeCreate(m)

Spec == Init /\ [][Next]_vars

\* The turn when the event loop runs every timer callback that is due
\* (chat-providers.ts line 1530).  The model's provider may never answer.
SpecLive ==
    /\ Init
    /\ [][Next]_vars
    /\ WF_vars(CompleteChatTimeout)
    /\ WF_vars(\E task \in extractions : ExtractionTimeout(task))

(***************************************************************************)
(* getOrCreateUserSettings and upsertUserSettings called directly, by      *)
(* requests that run at the same time.  A call of `settingsCalls` holds    *)
(* its arguments, where it stands (pc), the payload its query got and what *)
(* it returned or threw.                                                   *)
(***************************************************************************)
MaxSettingsCalls == 3

Patch(guidance, memoryEnabled, autoMemoryEnabled) ==
    [personalizationGuidance |-> guidance, memoryEnabled |-> memoryEnabled,
     autoMemoryEnabled |-> autoMemoryEnabled]

\* The patch {} of line 246.
EmptyPatch == Patch(Undefined, Undefined, Undefined)

SettingsPatches ==
    { Patch(Str(TxtBeBriefPadded), Bool(FALSE), Undefined),
      Patch(Undefined, Undefined, Bool(FALSE)) }

\* Variant of postedSettingsRow that posts every column, the ones the patch
\* leaves out with their defaults.
postedSettingsRowComplete(userId, patch, nowIso) ==
    [user_id |-> userId, updated_at |-> nowIso,
     personalization_guidance |->
         IF patch.personalizationGuidance.t = "str"
         THEN Str(normalizeText(patch.personalizationGuidance.s, MAX_PERSONALIZATION_LENGTH))
         ELSE Str(<<>>),
     memory_enabled |-> IF patch.memoryEnabled.t = "bool" THEN patch.memoryEnabled
                        ELSE Bool(TRUE),
     auto_memory_enabled |-> IF patch.autoMemoryEnabled.t = "bool"
                             THEN patch.autoMemoryEnabled ELSE Bool(TRUE)]

\* Lines 257-273: the row upsertUserSettings posts.  A column the patch leaves
\* out is Undefined, which JSON.stringify leaves out of the body.
postedSettingsRow(userId, patch, nowIso) ==
    [user_id |-> userId, updated_at |-> nowIso,
     personalization_guidance |->
         IF patch.personalizationGuidance.t = "str"
         THEN Str(normalizeText(patch.personalizationGuidance.s, MAX_PERSONALIZATION_LENGTH))
         ELSE Undefined,
     memory_enabled |-> IF patch.memoryEnabled.t = "bool" THEN patch.memoryEnabled
                        ELSE Undefined,
     auto_memory_enabled |-> IF patch.autoMemoryEnabled.t = "bool"
                             THEN patch.autoMemoryEnabled ELSE Undefined]

\* Variant of mergedSettingsRow in which a column the body leaves out falls
\* back to its default.
replacedSettingsRow(stored, posted) ==
    [stored EXCEPT
        !.updated_at = posted.updated_at,
        !.personalization_guidance =
            IF posted.personalization_guidance = Undefined THEN <<>>
            ELSE posted.personalization_guidance.s,
        !.memory_enabled = IF posted.memory_enabled = Undefined THEN Bool(TRUE)
                           ELSE posted.memory_enabled,
        !.auto_memory_enabled = IF posted.auto_memory_enabled = Undefined THEN Bool(TRUE)
                                ELSE posted.auto_memory_enabled]

\* resolution=merge-duplicates (line 277): the stored row takes the columns
\* the body holds and keeps the others.
mergedSettingsRow(stored, posted) ==
    [stored EXCEPT
        !.updated_at = posted.updated_at,
        !.personalization_guidance =
            IF posted.personalization_guidance = Undefined THEN @
            ELSE posted.personalization_guidance.s,
        !.memory_enabled = IF posted.memory_enabled = Undefined THEN @
                           ELSE posted.memory_enabled,
        !.auto_memory_enabled = IF posted.auto_memory_enabled = Undefined THEN @
                                ELSE posted.auto_memory_enabled]

\* Lines 274-280: the table after POST ?on_conflict=user_id with
\* merge-duplicates: the row of the user is merged, or a row is inserted.
upsertedSettingsRows(rows, posted) ==
    IF \E i \in 1..Len(rows) : rows[i].user_id = posted.user_id
    THEN [i \in 1..Len(rows) |->
             IF rows[i].user_id = posted.user_id THEN mergedSettingsRow(rows[i], posted)
             ELSE rows[i]]
    ELSE Append(rows, mergedSettingsRow(settingsRowInserted(posted), posted))

\* return=representation (line 277): the row of the user after the upsert.
upsertedSettingsRow(rows, posted) ==
    LET after == upsertedSettingsRows(rows, posted)
    IN  after[CHOOSE i \in 1..Len(after) : after[i].user_id = posted.user_id]

settingsCall(fn, userId, patch, pc) ==
    [fn |-> fn, userId |-> userId, patch |-> patch, pc |-> pc, payload |-> Null,
     result |-> Null]

SettingsInit ==
    /\ now = 100
    /\ selInput = <<>>
    /\ selMemories = <<>>
    /\ selPrompt = <<>>
    /\ selLimit = 0
    /\ selResults = <<>>
    /\ memRows = <<>>
    /\ merges = {}
    /\ threads = <<>>
    /\ messages = <<>>
    /\ settingsRows \in InitialSettingsRows
    /\ request = Null
    /\ env = NoDeployment
    /\ providerLog = <<>>
    /\ consoleErrors = {}
    /\ turn = idleTurn
    /\ callLog = <<>>
    /\ quotaAnswer = Null
    /\ loadedSettings = Null
    /\ memoryError = Null
    /\ touchTasks = {}
    /\ extractions = {}
    /\ parseText = <<>>
    /\ parseResults = <<>>
    /\ settingsCalls = <<>>
    /\ memoryCalls = <<>>

\* Line 228: a request calls getOrCreateUserSettings(userId).
CallGetOrCreate(userId) ==
    /\ Len(settingsCalls) < MaxSettingsCalls
    /\ settingsCalls' = Append(settingsCalls,
                               settingsCall("getOrCreateUserSettings", userId, EmptyPatch,
                                            "query"))
    /\ UNCHANGED <<now, selVars, mergeVars, turnVars, parseVars, memoryCalls>>

\* Line 249: a request calls upsertUserSettings(userId, patch).
CallUpsert(userId, patch) ==
    /\ Len(settingsCalls) < MaxSettingsCalls
    /\ settingsCalls' = Append(settingsCalls,
                               settingsCall("upsertUserSettings", userId, patch, "upsert"))
    /\ UNCHANGED <<now, selVars, mergeVars, turnVars, parseVars, memoryCalls>>

\* Lines 229-246: the query of call k answers.
SettingsQueryAnswers(k) ==
    /\ settingsCalls[k].pc = "query"
    /\ \E answer \in {[t |-> "json"], StoreUnavailable} :
          LET call    == settingsCalls[k]
              payload == settingsQueryAnswer(settingsRows, call.userId)
          IN  settingsCalls' =
                  [settingsCalls EXCEPT ![k] =
                      IF answer.t = "refusal"
                      THEN [call EXCEPT !.pc = "thrown",
                                        !.result = Error(FailureMessage(TxtFetchSettingsFailed,
                                                                        answer))]
                      ELSE IF Len(payload) > 0
                      THEN [call EXCEPT !.pc = "returned", !.payload = Arr(payload),
                                        !.result = parseSettingsRow(payload[1])]
                      ELSE [call EXCEPT !.pc = "upsert", !.payload = Arr(payload)]]
    /\ UNCHANGED <<now, selVars, mergeVars, turnVars, parseVars, memoryCalls>>

\* Lines 249-301: the upsert of call k answers.
SettingsUpsertAnswers(k) ==
    /\ settingsCalls[k].pc = "upsert"
    /\ \E answer \in {[t |-> "json"], [t |-> "empty-json"], StoreUnavailable} :
          LET call   == settingsCalls[k]
              posted == postedSettingsRow(call.userId, call.patch, IsoDay(now))
          IN  IF answer.t = "refusal"
              THEN /\ settingsCalls' =
                          [settingsCalls EXCEPT ![k] =
                              [call EXCEPT !.pc = "thrown",
                                           !.result = Error(FailureMessage(
                                                                TxtUpdateSettingsFailed,
                                                                answer))]]
                   /\ UNCHANGED settingsRows
              ELSE /\ settingsRows' = upsertedSettingsRows(settingsRows, posted)
                   /\ settingsCalls' =
                          [settingsCalls EXCEPT ![k] =
                              IF answer.t = "empty-json"
                              THEN [call EXCEPT !.pc = "thrown",
                                                !.result = Error(TxtUpdateSettingsEmpty)]
                              ELSE [call EXCEPT
                                       !.pc = "returned",
                                       !.result = parseSettingsRow(
                                                      upsertedSettingsRow(settingsRows,
                                                                          posted))]]
    /\ UNCHANGED <<now, selVars, mergeVars, chatVars, request, env, turn, ghostVars,
                   touchTasks, extractions, consoleErrors, parseVars, memoryCalls>>

SettingsNext ==
    \/ \E userId \in {"u1", "u2"} : CallGetOrCreate(userId)
    \/ \E patch \in SettingsPatches : CallUpsert("u1", patch)
    \/ \E k \in 1..Len(settingsCalls) : SettingsQueryAnswers(k)
    \/ \E k \in 1..Len(settingsCalls) : SettingsUpsertAnswers(k)

SpecSettings == SettingsInit /\ [][SettingsNext]_vars

(***************************************************************************)
(* The memory table under requests served side by side: chat turns, taken  *)
(* by the calls they make on the table (listUserMemories at line 294 of    *)
(* the chat route, touchMemories at line 322, mergeAutoMemories at line    *)
(* 341), POST /api/settings/memory and DELETE of a memory.  An element of  *)
(* memoryCalls is one request and where it stands.  The manual POST is     *)
(* served once, the chat route up to MaxChatTurns times.                   *)
(***************************************************************************)
MaxChatTurns == 1

memoryCall(route, userId, pc, userMemories, status) ==
    [route |-> route, userId |-> userId, pc |-> pc, userMemories |-> userMemories,
     status |-> status]

\* What the extraction of a turn came back with.
ExtractedLists ==
    { << [content |-> TxtPrefersTea, kind |-> "preference", confidence |-> Num(90)] >>,
      << [content |-> TxtLikesTeaVar, kind |-> "preference", confidence |-> Num(100)],
         [content |-> TxtIsTired, kind |-> "other", confidence |-> Num(78)] >> }

TxtPrefersTeaVar ==
    <<" ","p","r","e","f","e","r","s"," "," ","T","E","A"," ">>

\* The bodies POST /api/settings/memory receives.
ManualBodies ==
    { [t |-> "obj", content |-> Str(TxtPrefersTeaVar), kind |-> Str(TxtPreference)],
      [t |-> "obj", content |-> Str(TxtBlank), kind |-> Undefined] }

\* The requests of the route received so far.
requestsOf(route) == {k \in 1..Len(memoryCalls) : memoryCalls[k].route = route}

MemoryInit ==
    /\ now = 100
    /\ selInput = <<>>
    /\ selMemories = <<>>
    /\ selPrompt = <<>>
    /\ selLimit = 0
    /\ selResults = <<>>
    /\ memRows \in InitialMemoryRows
    /\ merges = {}
    /\ NoTurn
    /\ NoAlone

\* Lines 292-294 of the chat route: a turn lists the memories of its user.
TurnListsMemories(userId) ==
    /\ Cardinality(requestsOf("POST /api/chat")) < MaxChatTurns
    /\ \E payload \in listQueryAnswers(memRows, userId, MEMORY_LIST_LIMIT) :
          memoryCalls' = Append(memoryCalls,
                                memoryCall("POST /api/chat", userId, "listed",
                                           parseMemoryRows(payload), 0))
    /\ UNCHANGED <<now, selVars, mergeVars, turnVars, parseVars, settingsCalls>>

\* Lines 304-328: the turn selects the memories for its prompt and, its reply
\* stored, dispatches touchMemories for them.
TurnTouchesMemories(k) ==
    /\ memoryCalls[k].pc = "listed"
    /\ \E relevantMemories \in
              {selectRelevantMemories(memoryCalls[k].userMemories, trim(TxtPreferTea),
                                      MAX_MEMORY_PROMPT_ENTRIES, now)} :
          touchTasks' =
              IF Len(relevantMemories) > 0
              THEN touchTasks \cup
                   {newTouch(memoryCalls[k].userId,
                             [i \in 1..Len(relevantMemories) |-> relevantMemories[i].id])}
              ELSE touchTasks
    /\ memoryCalls' = [memoryCalls EXCEPT ![k].pc = "responded", ![k].status = 200]
    /\ UNCHANGED <<now, selVars, mergeVars, chatVars, settingsRows, request, env, turn,
                   ghostVars, extractions, consoleErrors, parseVars, settingsCalls>>

\* Lines 336-342: the extraction of the turn has returned candidates and
\* mergeAutoMemories is called with the memories the turn listed.
TurnMergesMemories(k, candidates) ==
    /\ memoryCalls[k].pc = "responded"
    /\ merges' = merges \cup {newMerge(k, memoryCalls[k].userId, candidates,
                                       memoryCalls[k].userMemories)}
    /\ memoryCalls' = [memoryCalls EXCEPT ![k].pc = "merging"]
    /\ UNCHANGED <<now, selVars, memRows, turnVars, parseVars, settingsCalls>>

\* Lines 42-53 of routes/api/settings/memory/+server.ts with createUserMemory
\* (user-settings.ts 325-378): the text is required, then the row is posted
\* with source 'manual' and confidence 1.
ManualMemoryPosted(userId, body) ==
    /\ requestsOf("POST /api/settings/memory") = {}
    /\ \E content \in {normalizeText(body.content.s, MAX_MEMORY_LENGTH)} :
          IF content = <<>>
          THEN /\ memoryCalls' = Append(memoryCalls,
                                        memoryCall("POST /api/settings/memory", userId,
                                                   "done", <<>>, 400))
               /\ UNCHANGED memRows
          ELSE \E outcome \in {"created", "refused"} :
                  /\ memRows' =
                         IF outcome = "refused" THEN memRows
                         ELSE Append(memRows,
                                     storedMemoryRow(
                                         createUserMemoryRow(userId, content,
                                                             normalizeKind(body.kind),
                                                             "manual", Num(100), IsoDay(now)),
                                         Len(memRows) + 1))
                  /\ memoryCalls' =
                         Append(memoryCalls,
                                memoryCall("POST /api/settings/memory", userId, "done",
                                           <<>>, IF outcome = "refused" THEN 500 ELSE 200))
    /\ UNCHANGED <<now, selVars, merges, turnVars, parseVars, settingsCalls>>

MemoryNext ==
    \/ TurnListsMemories("u1")
    \/ \E k \in 1..Len(memoryCalls) : TurnTouchesMemories(k)
    \/ \E k \in 1..Len(memoryCalls) : \E candidates \in ExtractedLists :
          TurnMergesMemories(k, candidates)
    \/ \E body \in ManualBodies : ManualMemoryPosted("u1", body)
    \/ \E call \in DeactivateCalls : DeactivateMemory(call.userId, call.memoryId)
    \/ \E task \in touchTasks : TouchPatch(task)
    \/ \E m \in merges : MergeBegin(m)
    \/ \E m \in merges : MergeCreate(m)

SpecMemory == MemoryInit /\ [][MemoryNext]_vars

(***************************************************************************)
(* parseJsonObjectFromText and parseAutoMemoryCandidates called directly   *)
(* on one JSON object text, bare and inside a fenced code block.           *)
(***************************************************************************)
JsonSaveOne ==
    <<"{","\"","s","a","v","e","\"",":","[","{","\"","c","o","n","t","e",
      "n","t","\"",":","\"","P","r","e","f","e","r","s"," ","t","e","a",
      "\"",",","\"","k","i","n","d","\"",":","\"","p","r","e","f","e","r",
      "e","n","c","e","\"",",","\"","c","o","n","f","i","d","e","n","c","e",
      "\"",":","0",".","9","}","]","}">>
JsonEmptyObject ==
    <<"{","}">>
JsonEmptySave ==
    <<"{","\"","s","a","v","e","\"",":"," ","[","]","}">>
JsonFenceInString ==
    <<"{","\"","s","a","v","e","\"",":","[","{","\"","c","o","n","t","e",
      "n","t","\"",":","\"","W","r","i","t","e","s"," ",Grave,Grave,Grave,
      " ","a","r","o","u","n","d"," ","c","o","d","e","\"",",","\"","k","i",
      "n","d","\"",":","\"","p","r","o","f","i","l","e","\"",",","\"","c",
      "o","n","f","i","d","e","n","c","e","\"",":","1","}","]","}">>
JsonTwoFencesInString ==
    <<"{","\"","s","a","v","e","\"",":","[","{","\"","c","o","n","t","e",
      "n","t","\"",":","\"",Grave,Grave,Grave,"j","s","o","n"," ","{","}",
      " ",Grave,Grave,Grave," ","i","s"," ","a"," ","b","l","o","c","k",
      "\"",",","\"","c","o","n","f","i","d","e","n","c","e","\"",":","0",
      ".","9","}","]","}">>
JsonBracesInString ==
    <<"{","\"","n","o","t","e","\"",":","\"","a"," ","}"," ","b"," ","{",
      " ","c","\"",",","\"","s","a","v","e","\"",":","[","{","\"","c","o",
      "n","t","e","n","t","\"",":","\"","O","w","n","s"," ","a"," ","b","o",
      "a","t","\"",",","\"","c","o","n","f","i","d","e","n","c","e","\"",
      ":","0",".","8","}","]","}">>
JsonManyLines ==
    <<"{","\n"," "," ","\"","s","a","v","e","\"",":"," ","[","\n"," "," ",
      " "," ","{","\"","c","o","n","t","e","n","t","\"",":"," ","\"","P",
      "l","a","y","s"," ","g","o","\"",","," ","\"","k","i","n","d","\"",
      ":"," ","\"","p","r","o","j","e","c","t","\"",","," ","\"","c","o",
      "n","f","i","d","e","n","c","e","\"",":"," ","0",".","9","5","}",",",
      "\n","\t","{","\"","c","o","n","t","e","n","t","\"",":"," ","\"","I",
      "s"," ","t","i","r","e","d","\"",","," ","\"","c","o","n","f","i","d",
      "e","n","c","e","\"",":"," ","0",".","5","}","\n"," "," ","]","\n","}">>
JsonSaveIsText ==
    <<"{","\"","s","a","v","e","\"",":","\"",Grave,Grave,Grave,"j","s","o",
      "n","\"","}">>
JsonNested ==
    <<"{","\"","a","\"",":","{","\"","b","\"",":","[","1",",","2",",","{",
      "\"","c","\"",":","n","u","l","l","}","]","}",",","\"","s","a","v",
      "e","\"",":","[","t","r","u","e",",","{","\"","c","o","n","t","e","n",
      "t","\"",":","\""," ","l","i","k","e","s"," "," ","T","E","A"," ",
      "\"",",","\"","c","o","n","f","i","d","e","n","c","e","\"",":","\"",
      "1","\"","}","]","}">>
JsonTwoSaves ==
    <<"{","\"","s","a","v","e","\"",":","[","{","\"","c","o","n","t","e",
      "n","t","\"",":","\"","O","w","n","s"," ","a"," ","b","o","a","t",
      "\"",",","\"","c","o","n","f","i","d","e","n","c","e","\"",":","0",
      ".","9","}","]",",","\"","s","a","v","e","\"",":","[","]","}">>

JsonObjectTexts ==
    { JsonSaveOne, JsonEmptyObject, JsonEmptySave, JsonFenceInString, JsonTwoFencesInString,
      JsonBracesInString, JsonManyLines, JsonSaveIsText, JsonNested, JsonTwoSaves }

TxtJsonTag ==
    <<"j","s","o","n">>
TxtJsonTagUpper ==
    <<"J","S","O","N">>

\* What may follow the opening fence: nothing, the json tag, the tag in capitals.
FenceTags == { <<>>, TxtJsonTag, TxtJsonTagUpper }

\* A fenced code block that holds the text and nothing else.
fencedBlock(tag, text) == Fence \o tag \o <<"\n">> \o text \o <<"\n">> \o Fence

\* Lines 221-222 of +server.ts applied to a reply.
parsedReply(fenced, tag, reply, payload) ==
    [fenced |-> fenced, tag |-> tag, reply |-> reply, payload |-> payload,
     candidates |-> parseAutoMemoryCandidates(payload)]

ParseInit ==
    /\ now = 100
    /\ selInput = <<>>
    /\ selMemories = <<>>
    /\ selPrompt = <<>>
    /\ selLimit = 0
    /\ selResults = <<>>
    /\ memRows = <<>>
    /\ merges = {}
    /\ NoTurn
    /\ parseText \in JsonObjectTexts
    /\ parseResults = <<>>
    /\ settingsCalls = <<>>
    /\ memoryCalls = <<>>

\* The reply is the JSON object text itself.
ParseUnfenced ==
    /\ \A i \in 1..Len(parseResults) : parseResults[i].fenced
    /\ \E payload \in {parseJsonObjectFromText(parseText)} :
          parseResults' = Append(parseResults, parsedReply(FALSE, <<>>, parseText, payload))
    /\ UNCHANGED <<now, selVars, mergeVars, turnVars, parseText, settingsCalls, memoryCalls>>

\* The reply is the JSON object text in a fenced code block.
ParseFenced(tag) ==
    /\ \A i \in 1..Len(parseResults) : parseResults[i].fenced => parseResults[i].tag # tag
    /\ \E reply \in {fencedBlock(tag, parseText)} :
          \E payload \in {parseJsonObjectFromText(reply)} :
              parseResults' = Append(parseResults, parsedReply(TRUE, tag, reply, payload))
    /\ UNCHANGED <<now, selVars, mergeVars, turnVars, parseText, settingsCalls, memoryCalls>>

ParseNext ==
    \/ ParseUnfenced
    \/ \E tag \in FenceTags : ParseFenced(tag)

SpecParse == ParseInit /\ [][ParseNext]_vars

\* C16: for a JSON object text, the reply that is the text in a fenced code
\* block (with the json tag, in either case, or without a tag) is read as
\* the same object, and gives the same candidate list, as the reply that is
\* the bare text.
C16_FencedParsesAsUnfenced ==
    \A i \in 1..Len(parseResults) : \A j \in 1..Len(parseResults) :
        /\ parseResults[i].payload.t = "obj"
        /\ parseResults[i].payload = parseResults[j].payload
        /\ parseResults[i].candidates = parseResults[j].candidates

C16_Witness ==
    /\ parseText = JsonFenceInString
    /\ Len(parseResults) = 4
    /\ Len(parseResults[1].candidates) = 1

(***************************************************************************)
(* Claims about the chat turn (checked under Spec).                        *)
(***************************************************************************)
ClaimCalled(name) == \E i \in 1..Len(callLog) : callLog[i] = name

ClaimNoBackgroundTask ==
    /\ touchTasks = {}
    /\ extractions = {}
    /\ merges = {}
    /\ ~ClaimCalled("touchMemories")
    /\ ~ClaimCalled("extractAutoMemoryCandidates")

\* C1: in a turn whose quota call returned allowed=false the handler has
\* answered 429 with that quota result, the quota call is the only call it has
\* made, no thread or message row was added, no settings or memories were read
\* and no background task exists.
C1_DenialIsHardStop ==
    (turn.quota # Null /\ ~turn.quota.allowed) =>
        /\ turn.pc = "done"
        /\ turn.response.status = 429
        /\ turn.response.quota = turn.quota
        /\ callLog = <<"consumeDailyQuota">>
        /\ threads = InitialThreads
        /\ messages = InitialMessages
        /\ loadedSettings = Null
        /\ memoryError = Null
        /\ turn.completion = Null
        /\ ClaimNoBackgroundTask

C1_Witness ==
    /\ quotaAnswer = Json(Arr(<<QuotaRow(Bool(FALSE))>>))
    /\ turn.quota # Null
    /\ ~turn.quota.allowed
    /\ turn.pc = "done"
    /\ turn.response.status = 429
    /\ Len(turn.threadId) > 0
    /\ Len(memRows) > 0

\* The row of the quota RPC's answer carries allowed = true, the boolean.
ClaimAnsweredAllowedTrue ==
    /\ quotaAnswer.t = "json"
    /\ LET payload == quotaAnswer.value
           row     == IF payload.t = "arr"
                      THEN (IF Len(payload.items) > 0 THEN payload.items[1] ELSE Undefined)
                      ELSE payload
       IN  /\ row.t = "obj"
           /\ "allowed" \in DOMAIN row
           /\ row.allowed = [t |-> "bool", b |-> TRUE]

\* C2: once the quota RPC has answered, unless it answered normally with a row
\* whose allowed is the boolean true, the turn is over, no thread or message row
\* was added and nothing was called after the quota.
C2_FailsClosed ==
    (quotaAnswer # Null /\ ~ClaimAnsweredAllowedTrue) =>
        /\ turn.pc = "done"
        /\ threads = InitialThreads
        /\ messages = InitialMessages
        /\ callLog = <<"consumeDailyQuota">>

ClaimHasMemorySection(text) == includes(text, TxtMemoryHeading)

\* C9: in a turn whose loaded settings have memoryEnabled=false the memories
\* are not listed, selectRelevantMemories is not called, the system prompt is
\* absent when the guidance is blank and otherwise is the preamble and the
\* guidance section only, no system message of the completion request has a
\* memory section, and no touch, extraction or merge exists.
C9_MemoryDisabled ==
    (loadedSettings # Null /\ ~loadedSettings.memoryEnabled) =>
        /\ ~ClaimCalled("listUserMemories")
        /\ ~ClaimCalled("selectRelevantMemories")
        /\ turn.userMemories = <<>>
        /\ turn.relevantMemories = <<>>
        /\ ClaimCalled("completeChat")
        /\ IF trim(loadedSettings.personalizationGuidance) = <<>>
           THEN turn.settingsSystemPrompt = Null
           ELSE turn.settingsSystemPrompt =
                    [t |-> "str",
                     s |-> TxtApplySettings \o <<"\n", "\n">> \o TxtGuidanceHeading
                               \o trim(loadedSettings.personalizationGuidance)]
        /\ \A i \in 1..Len(turn.messagesForModel) :
              turn.messagesForModel[i].role = "system" =>
                  ~ClaimHasMemorySection(turn.messagesForModel[i].content)
        /\ \A i \in 1..Len(memRows) : memRows[i].last_used_at = Null
        /\ ClaimNoBackgroundTask

C9_Witness ==
    /\ loadedSettings # Null
    /\ ~loadedSettings.memoryEnabled
    /\ loadedSettings.autoMemoryEnabled
    /\ turn.pc = "done"
    /\ turn.response.status = 200
    /\ turn.message = trim(TxtPreferTea)
    /\ \E i \in 1..Len(memRows) : memRows[i].user_id = turn.userId /\ memRows[i].is_active
    /\ turn.settingsSystemPrompt # Null

\* The load caught the store's answer that a memory table does not exist.
ClaimSchemaMissingSignalled ==
    /\ memoryError # Null
    /\ memoryError.error.message \in
           { FailureMessage(TxtFetchSettingsFailed, SettingsTableMissing),
             FailureMessage(TxtUpdateSettingsFailed, SettingsTableMissing),
             FailureMessage(TxtListMemoriesFailed, MemoriesTableMissing) }

ClaimAreDefaults(settings) ==
    /\ settings.personalizationGuidance = <<>>
    /\ settings.memoryEnabled
    /\ settings.autoMemoryEnabled

\* C10 as stated: once the load has caught a schema-missing signal, from the
\* settings read or from the memory list, the turn's settings are the defaults,
\* its memory list is empty and the completion has been requested.
C10_DefaultsOnSchemaMissing ==
    ClaimSchemaMissingSignalled =>
        /\ ClaimAreDefaults(turn.userSettings)
        /\ turn.userMemories = <<>>
        /\ ClaimCalled("completeChat")

\* C10 amended: once the load has caught a schema-missing signal the turn's
\* memory list is empty, no memory is selected and the completion has been
\* requested; the turn's settings are the defaults when the settings read
\* raised the signal and the settings read when the memory list raised it.
C10_SchemaMissingDegrades ==
    ClaimSchemaMissingSignalled =>
        /\ IF loadedSettings = Null
           THEN ClaimAreDefaults(turn.userSettings)
           ELSE turn.userSettings = loadedSettings
        /\ turn.userMemories = <<>>
        /\ turn.relevantMemories = <<>>
        /\ ~turn.memoryStorageAvailable
        /\ ClaimCalled("completeChat")
        /\ turn.pc \in {"completeChat", "addAssistantMessage", "touchThread", "done"}
        /\ ClaimNoBackgroundTask

C10_Witness ==
    /\ ClaimSchemaMissingSignalled
    /\ loadedSettings # Null
    /\ ~ClaimAreDefaults(loadedSettings)
    /\ turn.pc = "done"
    /\ turn.response.status = 200
    /\ \E i \in 1..Len(memRows) : memRows[i].user_id = turn.userId /\ memRows[i].is_active

\* The store holds a user message appended by this turn.
ClaimUserMessageSaved ==
    /\ turn.thread # Null
    /\ \E i \in (Len(InitialMessages) + 1)..Len(messages) :
          /\ messages[i].role = "user"
          /\ messages[i].user_id = turn.userId
          /\ messages[i].thread_id = turn.thread.id
          /\ messages[i].content = turn.message

\* The errors raised by the thread lookup, the thread creation and the append.
ClaimPersistFailures ==
    { FailureMessage(TxtFetchChatFailed, StoreUnavailable),
      FailureMessage(TxtCreateChatFailed, StoreUnavailable), TxtCreateChatEmpty,
      FailureMessage(TxtSaveMessageFailed, StoreUnavailable), TxtSaveMessageEmpty }

\* C12: the primary completion is requested only after this turn's user
\* message was appended; a turn that got past the quota without its user
\* message in the store ends with status 500 and an error of the thread
\* lookup, the thread creation or the append, and requests no completion.
C12_PersistBeforeCompletion ==
    /\ ClaimCalled("completeChat") => ClaimUserMessageSaved
    /\ (turn.pc = "done" /\ turn.quota # Null /\ turn.quota.allowed /\ ~ClaimUserMessageSaved) =>
           /\ turn.response.status = 500
           /\ turn.response.error \in ClaimPersistFailures
           /\ ~ClaimCalled("completeChat")

C12_Witness ==
    /\ turn.pc = "done"
    /\ ClaimCalled("addMessageToThread")
    /\ ~ClaimUserMessageSaved
    /\ turn.response.error = FailureMessage(TxtSaveMessageFailed, StoreUnavailable)

\* What the provider and the timer did to the primary call, in order.
ClaimPrimaryEvents == SelectSeq(providerLog, LAMBDA entry : entry.call = "primary")

\* The entry is a failure of a request: no answer in time, no connection, a
\* refusal, or an empty completion.
ClaimIsFailure(entry) ==
    \/ entry.event \in {"timeout", "unreachable", "details"}
    \/ entry.event = "completion" /\ entry.reply = <<>>

\* The primary completion call is over and has failed: it threw before any
\* request was sent, or its last request failed.
ClaimPrimaryFailed ==
    /\ turn.pc # "completeChat"
    /\ ClaimCalled("completeChat")
    /\ \/ IsError(turn.call)
       \/ /\ ClaimPrimaryEvents # <<>>
          /\ ClaimIsFailure(ClaimPrimaryEvents[Len(ClaimPrimaryEvents)])

TxtTimedOut ==
    <<"t","i","m","e","d"," ","o","u","t"," ","a","f","t","e","r">>
TxtEmptyWord ==
    <<"e","m","p","t","y"," ","c","o","m","p","l","e","t","i","o","n">>
\* A text by which the error of a failed request is recognised.
ClaimFailureText(entry) ==
    IF entry.event = "timeout" THEN TxtTimedOut
    ELSE IF entry.event = "unreachable" THEN TxtFetchFailed
    ELSE IF entry.event = "details" THEN TxtOverloaded
    ELSE TxtEmptyWord

\* The response carries the error text of the failed primary call.
ClaimCarriesProviderError ==
    IF IsError(turn.call) THEN turn.response.error = TxtMissingApiKey
    ELSE \A i \in 1..Len(ClaimPrimaryEvents) :
            ClaimIsFailure(ClaimPrimaryEvents[i]) =>
                includes(turn.response.error, ClaimFailureText(ClaimPrimaryEvents[i]))

\* The store holds a message of the assistant appended by this turn.
ClaimAssistantMessageSaved ==
    \E i \in (Len(InitialMessages) + 1)..Len(messages) : messages[i].role = "assistant"

\* C13: when the primary completion call fails (the provider refuses, cannot
\* be reached, sends an empty completion, or the abort timer fires, on the
\* last model tried), the turn ends with status 500 and the error text of
\* the call, no assistant message is appended, and no touch, extraction or
\* merge is dispatched.
C13_CompletionFailureIsHard ==
    ClaimPrimaryFailed =>
        /\ turn.pc = "done"
        /\ turn.response.status = 500
        /\ ClaimCarriesProviderError
        /\ ~ClaimAssistantMessageSaved
        /\ ClaimNoBackgroundTask

C13_Witness ==
    /\ ClaimPrimaryFailed
    /\ Len(ClaimPrimaryEvents) = 3
    /\ ClaimPrimaryEvents[1].event = "timeout"
    /\ ClaimPrimaryEvents[3].reply = <<>>
    /\ ClaimPrimaryEvents[3].event = "completion"
    /\ Len(turn.relevantMemories) > 0
    /\ turn.userSettings.autoMemoryEnabled
    /\ shouldAttemptAutoMemoryCapture(turn.message)

\* The response of a turn that got as far as dispatching its background tasks.
ClaimSuccessPayload ==
    [status |-> 200, reply |-> turn.completion.reply, provider |-> turn.completion.provider,
     quota |-> turn.quota, threadId |-> turn.thread.id]

\* While background tasks exist the turn has returned the success payload, and
\* console.error has printed nothing but failed tasks.
ClaimBackgroundState ==
    /\ (touchTasks # {} \/ extractions # {} \/ merges # {}) =>
           /\ turn.pc = "done"
           /\ turn.response = ClaimSuccessPayload
    /\ \A source \in consoleErrors : rejected(source)

\* A step leaves a returned response as it is, and leaves a failed task as
\* it is: nothing of it runs again.
ClaimBackgroundStep ==
    /\ turn.pc = "done" => turn' = turn
    /\ \A task \in touchTasks : task.status = "failed" => task \in touchTasks'
    /\ \A task \in extractions : task.status = "failed" => task \in extractions'
    /\ \A m \in merges : m.status = "failed" => m \in merges'

\* C14: whatever the background tasks of a turn do and however they
\* interleave, the response stays the success payload (reply, provider,
\* quota, threadId) the turn returned; a failure of the touch, of the
\* extraction call or of a memory create is printed by console.error only,
\* and the failed task does not run again.
C14_BackgroundNeverReachesCaller == []ClaimBackgroundState /\ [][ClaimBackgroundStep]_vars

C14_Witness ==
    /\ turn.pc = "done"
    /\ turn.response.status = 200
    /\ {"touchMemories", "mergeAutoMemories"} \subseteq consoleErrors
    /\ \E task \in touchTasks : task.status = "failed"

\* How often the handler has called consumeDailyQuota.
ClaimQuotaCalls == Cardinality({i \in 1..Len(callLog) : callLog[i] = "consumeDailyQuota"})

\* The request's body is an object whose message is a string with a character
\* that is no white space.
ClaimHasMessage ==
    /\ request.body.t = "obj"
    /\ request.body.message.t = "str"
    /\ \E i \in 1..Len(request.body.message.s) : ~IsSpace(request.body.message.s[i])

\* The session check found the user of the request.
ClaimAuthenticated == turn.userId # ""

\* C19: consumeDailyQuota is called at most once per request and never again
\* after it failed; once the request is read it has been called exactly
\* once when the session is valid and the message non-empty, and never when
\* the request ends with 401 (token missing or invalid), with 400 (body
\* unparsable or message empty) or with the error of the session check.
C19_QuotaConsumedOnce ==
    /\ ClaimQuotaCalls <= 1
    /\ turn.pc # "idle" =>
           (ClaimQuotaCalls = 1 <=> ClaimAuthenticated /\ ClaimHasMessage)
    /\ (turn.pc = "done" /\ turn.response.status \in {400, 401}) => ClaimQuotaCalls = 0

C19_Witness ==
    /\ turn.pc = "done"
    /\ ClaimQuotaCalls = 1
    /\ IsError(consumeDailyQuota(quotaAnswer))
    /\ turn.response.status = 500

\* The failures a turn can still meet once its completion has arrived.
ClaimLaterFailures ==
    { TxtSaveMessageEmpty,
      FailureMessage(TxtSaveMessageFailed, StoreUnavailable),
      FailureMessage(TxtTouchThreadFailed, StoreUnavailable) }

\* The turn ended with the reply, or with the error of a step that follows
\* the memory load.
ClaimRepliedUnlessLaterFailure ==
    turn.pc = "done" =>
        \/ turn.response.status = 200 /\ turn.response.reply = TxtReply
        \/ /\ turn.response.status = 500
           /\ ClaimPrimaryFailed \/ turn.response.error \in ClaimLaterFailures

\* C11: a failure of the settings read or of the memory list, schema-missing
\* or not, does not fail the turn: the primary completion is requested with
\* no memory section in the prompt, no memory is selected, no touch,
\* extraction or merge is started, the turn returns the reply unless a later
\* step fails, and after a non-schema error the settings are the defaults.
C11_MemoryFailureDegrades ==
    memoryError # Null =>
        /\ ClaimCalled("completeChat")
        /\ turn.relevantMemories = <<>>
        /\ turn.settingsSystemPrompt # Null =>
               ~ClaimHasMemorySection(turn.settingsSystemPrompt.s)
        /\ \A i \in 1..Len(turn.messagesForModel) :
               ~ClaimHasMemorySection(turn.messagesForModel[i].content)
        /\ ClaimNoBackgroundTask
        /\ ClaimRepliedUnlessLaterFailure
        /\ ~ClaimSchemaMissingSignalled => ClaimAreDefaults(turn.userSettings)

C11_Witness ==
    /\ memoryError # Null
    /\ ~ClaimSchemaMissingSignalled
    /\ loadedSettings # Null
    /\ ~ClaimAreDefaults(loadedSettings)
    /\ turn.pc = "done"
    /\ turn.response.status = 200
    /\ shouldAttemptAutoMemoryCapture(turn.message)
    /\ \E i \in 1..Len(memRows) : memRows[i].user_id = turn.userId /\ memRows[i].is_active

\* Replies that none of the three readings turns into an object.
ClaimUnparsableReplies == { ReplyFreeText, ReplyTruncated }

\* Replies read as an object that has no array under save.
ClaimNoSaveArrayReplies == { ReplySaveObject, ReplyArray }

\* The extractions that were answered by such a reply.
ClaimFruitless ==
    {task \in extractions :
        \E i \in 1..Len(providerLog) :
            /\ providerLog[i].call = "extraction"
            /\ providerLog[i].event = "completion"
            /\ providerLog[i].reply \in ClaimUnparsableReplies \cup ClaimNoSaveArrayReplies}

ClaimFruitlessState ==
    \A task \in ClaimFruitless :
        /\ task.status = "done"
        /\ "extractAutoMemoryCandidates" \notin consoleErrors
        /\ merges = {}

ClaimFruitlessStep == ClaimFruitless # {} => Len(memRows') = Len(memRows)

\* C15: an extraction answered by a reply that no reading (whole, fenced,
\* first brace to last brace) turns into an object, or by an object without
\* an array under save, ends without an error, mergeAutoMemories is not
\* invoked, and no memory row is added in that turn.
C15_UnparsableReplySavesNothing == []ClaimFruitlessState /\ [][ClaimFruitlessStep]_vars

C15_Witness ==
    /\ \E task \in extractions : task.status = "done" /\ task.reply = ReplySaveObject
    /\ turn.pc = "done"
    /\ Len(memRows) > 0

\* The row of the store that holds the memory.
ClaimRowOf(memory) == memRows[CHOOSE i \in 1..Len(memRows) : memRows[i].id = memory.id]

\* A step removes no row and changes no row's id, owner or content.
ClaimRowsKept ==
    /\ Len(memRows') >= Len(memRows)
    /\ \A i \in 1..Len(memRows) :
           /\ memRows'[i].id = memRows[i].id
           /\ memRows'[i].user_id = memRows[i].user_id
           /\ memRows'[i].content = memRows[i].content
           /\ ~memRows[i].is_active => ~memRows'[i].is_active

\* The list a step of the turn loads holds active rows only, and so does the
\* selection made of it.
ClaimListsActiveOnly ==
    (turn.pc = "listUserMemories" /\ turn'.pc # "listUserMemories") =>
        /\ \A k \in 1..Len(turn'.userMemories) : ClaimRowOf(turn'.userMemories[k]).is_active
        /\ \A k \in 1..Len(turn'.relevantMemories) :
               ClaimRowOf(turn'.relevantMemories[k]).is_active

\* A merge that starts to run builds its dedup set of active rows only.
ClaimDedupOfActiveOnly ==
    \A m \in merges :
        (m.status = "called" /\ m \notin merges') =>
            \A k \in 1..Len(m.existing) : ClaimRowOf(m.existing[k]).is_active

\* C17: no step removes a memory row or makes an inactive row active again;
\* a row that deactivateUserMemory has made inactive is in no list loaded
\* afterwards and in no selection made of it, and is not among the entries
\* the dedup set of a merge is built from when the merge runs afterwards,
\* the merge of a turn that had loaded its memories before included.
C17_DeactivatedIsExcluded ==
    [][ClaimRowsKept /\ ClaimListsActiveOnly /\ ClaimDedupOfActiveOnly]_vars

\* The parts of C17 that do not concern a turn in flight.
ClaimKeptAndListedActive == [][ClaimRowsKept /\ ClaimListsActiveOnly]_vars

\* The primary completion call is pending.
ClaimPrimaryPending == turn.pc = "completeChat" /\ turn.call.t = "request"

\* An extraction's completion call is pending.
ClaimExtractionPending == \E task \in extractions : task.status = "requested"

\* C18: a completion call, primary or extraction, on either provider does
\* not stay pending forever: when the provider never answers, the abort
\* timer ends the call (and with it the turn of a primary call).
C18_CallsEndInTime ==
    /\ ClaimPrimaryPending ~> ~ClaimPrimaryPending
    /\ ClaimExtractionPending ~> ~ClaimExtractionPending

\* The rows of the settings table that belong to the user.
ClaimSettingsOf(rows, userId) == SelectSeq(rows, LAMBDA row : row.user_id = userId)

\* The table holds at most one row per user.
ClaimOneRowPerUser ==
    \A i \in 1..Len(settingsRows) : \A j \in 1..Len(settingsRows) :
        settingsRows[i].user_id = settingsRows[j].user_id => i = j

\* The step is one of call k, a call of getOrCreateUserSettings.
ClaimGetOrCreateStep(k) ==
    /\ settingsCalls[k].fn = "getOrCreateUserSettings"
    /\ settingsCalls'[k] # settingsCalls[k]

\* A step in which getOrCreateUserSettings returns for a user without a row
\* leaves the user a row with the defaults and returns the defaults.
ClaimCreatesDefaults ==
    \A k \in 1..Len(settingsCalls) :
        ( /\ ClaimGetOrCreateStep(k)
          /\ settingsCalls'[k].pc = "returned"
          /\ ClaimSettingsOf(settingsRows, settingsCalls[k].userId) = <<>> ) =>
            LET userId == settingsCalls[k].userId
                stored == ClaimSettingsOf(settingsRows', userId)
                result == settingsCalls'[k].result
            IN  /\ Len(stored) = 1
                /\ stored[1].personalization_guidance = <<>>
                /\ stored[1].memory_enabled = Bool(TRUE)
                /\ stored[1].auto_memory_enabled = Bool(TRUE)
                /\ result.userId = userId
                /\ result.personalizationGuidance = <<>>
                /\ result.memoryEnabled
                /\ result.autoMemoryEnabled

\* A step of getOrCreateUserSettings for a user with a row leaves the row's
\* guidance and its two switches as they are.
ClaimKeepsRecord ==
    \A k \in 1..Len(settingsCalls) :
        ( /\ ClaimGetOrCreateStep(k)
          /\ ClaimSettingsOf(settingsRows, settingsCalls[k].userId) # <<>> ) =>
            LET before == ClaimSettingsOf(settingsRows, settingsCalls[k].userId)[1]
                after  == ClaimSettingsOf(settingsRows', settingsCalls[k].userId)
            IN  /\ Len(after) = 1
                /\ after[1].personalization_guidance = before.personalization_guidance
                /\ after[1].memory_enabled = before.memory_enabled
                /\ after[1].auto_memory_enabled = before.auto_memory_enabled

\* C20: however calls of getOrCreateUserSettings and upsertUserSettings
\* interleave, the table holds at most one row per user; a
\* getOrCreateUserSettings that returns for a user without a row has made
\* one with empty guidance and both switches on, and returns it; and no
\* step of getOrCreateUserSettings changes the guidance or a switch of a
\* row the user has, also when an upsert made the row after the call's
\* query found none.
C20_OneSettingsRowPerUser ==
    []ClaimOneRowPerUser /\ [][ClaimCreatesDefaults /\ ClaimKeepsRecord]_vars

\* A getOrCreateUserSettings whose query found no row has returned the row
\* an upsert made in between.
C20_Witness ==
    \E k \in 1..Len(settingsCalls) :
        /\ settingsCalls[k].fn = "getOrCreateUserSettings"
        /\ settingsCalls[k].pc = "returned"
        /\ settingsCalls[k].payload = Arr(<<>>)
        /\ settingsCalls[k].result.personalizationGuidance = TxtBeBrief
        /\ ~settingsCalls[k].result.memoryEnabled

\* The calls of a turn in the order of the handler's text (lines 262-336); the
\* first addMessageToThread appends the user's message, the second the
\* assistant's.
ClaimStepOrder ==
    << "consumeDailyQuota", "getThreadForUser", "createThreadForUser", "addMessageToThread",
       "listMessagesForThread", "getOrCreateUserSettings", "listUserMemories",
       "selectRelevantMemories", "completeChat", "addMessageToThread", "touchThread",
       "touchMemories", "extractAutoMemoryCandidates" >>

\* The calls of `log` occur in `order`, in the order they have there.
RECURSIVE ClaimInOrder(_, _)
ClaimInOrder(log, order) ==
    IF log = <<>> THEN TRUE
    ELSE IF order = <<>> THEN FALSE
    ELSE IF Head(log) = Head(order) THEN ClaimInOrder(Tail(log), Tail(order))
    ELSE ClaimInOrder(log, Tail(order))

ClaimCallCount(name) == Cardinality({i \in 1..Len(callLog) : callLog[i] = name})

\* The last thing the provider did to the primary call is a completion that
\* is not empty.
ClaimPrimaryReturned ==
    /\ turn.completion # Null
    /\ \E i \in 1..Len(providerLog) :
          /\ providerLog[i].call = "primary"
          /\ providerLog[i].event = "completion"
          /\ providerLog[i].reply = turn.completion.reply
          /\ providerLog[i].reply # <<>>
          /\ \A j \in (i + 1)..Len(providerLog) : providerLog[j].call # "primary"

\* Touch or extraction has been dispatched.
ClaimDispatched ==
    \/ ClaimCalled("touchMemories")
    \/ ClaimCalled("extractAutoMemoryCandidates")
    \/ touchTasks # {}
    \/ extractions # {}

\* Every step but the composition is started only when the step before it has
\* completed successfully.
ClaimStepsAfterSuccess ==
    /\ ClaimInOrder(callLog, ClaimStepOrder)
    /\ ClaimCalled("addMessageToThread") =>
           turn.quota # Null /\ turn.quota.allowed /\ turn.thread # Null
    /\ ClaimCalled("listMessagesForThread") => ClaimUserMessageSaved
    /\ ClaimCalled("getOrCreateUserSettings") => turn.modelMessages # <<>>
    /\ ClaimCalled("listUserMemories") => loadedSettings # Null
    /\ ClaimCalled("selectRelevantMemories") => memoryError = Null
    /\ ClaimCalled("completeChat") => ClaimCalled("getOrCreateUserSettings")
    /\ ClaimCallCount("addMessageToThread") = 2 => ClaimPrimaryReturned
    /\ ClaimCalled("touchThread") => ClaimAssistantMessageSaved
    /\ ClaimDispatched =>
           /\ ClaimAssistantMessageSaved
           /\ turn.pc = "done"
           /\ turn.response.status = 200
    /\ (turn.pc = "done" /\ turn.response.status = 200) =>
           ClaimAssistantMessageSaved /\ ClaimCalled("touchThread")

\* The settings/memory load of the turn has completed, successfully or with
\* an error that was caught.
ClaimLoadCompleted ==
    \/ memoryError # Null
    \/ /\ loadedSettings # Null
       /\ ClaimCalled("listUserMemories") => turn.pc # "listUserMemories"

\* C21 as stated: the calls of a turn are made in the order quota, append of
\* the user's message, history, settings and memories, selection and
\* composition, primary completion, append of the assistant's message,
\* dispatch of touch and of extraction, response, and each is made only when
\* the one before it has completed successfully; the completion is requested
\* only when the settings/memory load has succeeded.
C21_StrictOrderAllSuccessful ==
    /\ ClaimStepsAfterSuccess
    /\ ClaimCalled("completeChat") => (ClaimLoadCompleted /\ memoryError = Null)

\* C21, amended: the same order, each call made only when the one before it
\* has completed successfully, except that the composition and the primary
\* completion also follow a settings/memory load that failed and was caught.
C21_StrictOrder ==
    /\ ClaimStepsAfterSuccess
    /\ ClaimCalled("completeChat") => ClaimLoadCompleted

C21_Witness ==
    /\ turn.pc = "done"
    /\ turn.response.status = 200
    /\ memoryError # Null
    /\ callLog = << "consumeDailyQuota", "getThreadForUser", "addMessageToThread",
                    "listMessagesForThread", "getOrCreateUserSettings", "completeChat",
                    "addMessageToThread", "touchThread" >>

\* The message is one the capture gate lets through: at least 14 characters
\* once trimmed, and one of the capture phrases occurs in it, case ignored.
ClaimCaptureWorthy(message) ==
    /\ Len(trim(message)) >= 14
    /\ \E phrase \in CapturePhrases : includes(toLowerCase(trim(message)), phrase)

\* The rows of chat_user_memories are those the table held before the turn,
\* whatever was touched or deactivated since.
ClaimNoMemoryCreated ==
    \E rows \in InitialMemoryRows :
        /\ Len(memRows) = Len(rows)
        /\ \A i \in 1..Len(rows) :
               /\ memRows[i].id = rows[i].id
               /\ memRows[i].content = rows[i].content
               /\ memRows[i].source = rows[i].source

ClaimThreadMessages(threadId) ==
    SelectSeq(messages, LAMBDA row : row.thread_id = threadId)

\* What the claim has a persisted message passed on as: its content, followed
\* by the line of the attachment names when it has attachments.
ClaimRendered(row) ==
    IF Len(row.attachments.items) = 0 THEN row.content
    ELSE row.content \o TxtAttachedFiles
         \o join([i \in 1..Len(row.attachments.items) |-> row.attachments.items[i].s],
                 <<",", " ">>)

\* The last min(20, n) of n rows, each with its role and rendered content.
ClaimLastRendered(rows) ==
    LET n == Len(rows)
        k == Min(20, n)
    IN  [i \in 1..k |-> [role |-> rows[n - k + i].role,
                         content |-> ClaimRendered(rows[n - k + i])]]

\* The messages handed to completeChat without the system message the
\* composer put in front.
ClaimHistoryPassed ==
    IF turn.settingsSystemPrompt # Null /\ ToBoolean(turn.settingsSystemPrompt)
    THEN Tail(turn.messagesForModel) ELSE turn.messagesForModel

\* C24: while the primary completion is requested, the history handed to it
\* is the last min(20, n) of the n persisted messages of the thread, in
\* creation order and with their roles; a message with attachments is passed
\* as its content followed by the line naming the attached files, any other
\* message as its content; the last one is the user message of this turn.
C24_HistoryIsLastTwenty ==
    turn.pc = "completeChat" =>
        /\ ClaimHistoryPassed = ClaimLastRendered(ClaimThreadMessages(turn.thread.id))
        /\ Len(ClaimHistoryPassed) > 0
        /\ ClaimHistoryPassed[Len(ClaimHistoryPassed)].role = "user"
        /\ LET rows == ClaimThreadMessages(turn.thread.id)
           IN  /\ rows[Len(rows)].id > Len(InitialMessages)
               /\ rows[Len(rows)].content = trim(turn.message)

C24_Witness ==
    /\ turn.pc = "completeChat"
    /\ Len(ClaimThreadMessages(turn.thread.id)) > 20
    /\ Len(ClaimHistoryPassed) = 20
    /\ \E i \in 1..20 : Len(ClaimHistoryPassed[i].content) > Len(TxtAttachedFiles)
    /\ ClaimHistoryPassed[20].content = trim(turn.message)

\* The request of the primary completion is with the provider.
ClaimPrimarySent == turn.pc = "completeChat" /\ turn.call.t = "request"

\* The message lists of the requests that are with a provider.
ClaimSentLists ==
    (IF ClaimPrimarySent THEN {turn.call.messages} ELSE {})
    \cup {task.call.messages : task \in {e \in extractions : e.status = "requested"}}

\* The list has one system-role message, and it is the first.
ClaimOneSystemFirst(list) ==
    /\ Len(list) > 0
    /\ list[1].role = "system"
    /\ \A i \in 2..Len(list) : list[i].role # "system"

\* The system message of the list is the block the composer returned for the
\* turn, or the base system prompt when it returned none.
ClaimComposerOrBase(list) ==
    list[1].content = IF ToBoolean(turn.settingsSystemPrompt)
                      THEN turn.settingsSystemPrompt.s
                      ELSE IF trim(env.CHAT_SYSTEM_PROMPT) # <<>>
                      THEN trim(env.CHAT_SYSTEM_PROMPT)
                      ELSE DEFAULT_SYSTEM_PROMPT

\* C25 as stated: every message list sent to a provider has exactly one
\* system message, the first, which is the composer's block or, when the
\* composer returned none, the base system prompt.
C25_ComposerOrBaseFirstInEveryList ==
    \A list \in ClaimSentLists : ClaimOneSystemFirst(list) /\ ClaimComposerOrBase(list)

\* C25: every message list sent to a provider has exactly one system
\* message, the first; in the list of the primary completion it is the
\* composer's block or, when the composer returned none, the base system
\* prompt, and the conversation history follows it; in the list of an
\* extraction call it is the extraction prompt.
C25_OneSystemMessageFirst ==
    /\ \A list \in ClaimSentLists : ClaimOneSystemFirst(list)
    /\ ClaimPrimarySent =>
           /\ ClaimComposerOrBase(turn.call.messages)
           /\ Tail(turn.call.messages) = ClaimHistoryPassed
    /\ \A task \in extractions :
           task.status = "requested" =>
               task.call.messages[1].content = AUTO_MEMORY_SYSTEM_PROMPT

C25_Witness ==
    /\ ClaimPrimarySent
    /\ ~ToBoolean(turn.settingsSystemPrompt)
    /\ turn.call.messages[1].content = DEFAULT_SYSTEM_PROMPT
    /\ Len(turn.call.messages) = 21

\* The user the turn of the model acts for.
ClaimUser == request.userId

\* The thread with this id exists and belongs to the user.
ClaimOwns(userId, threadId) ==
    \E i \in 1..Len(threads) : threads[i].id = threadId /\ threads[i].user_id = userId

\* The threadId of the request, as the handler reads it, names no thread of
\* the user: it is malformed, unknown, or the id of another user's thread.
ClaimNoThreadOfUser ==
    /\ request.body.t = "obj"
    /\ request.body.threadId.t = "str"
    /\ trim(request.body.threadId.s) # <<>>
    /\ ~\E i \in 1..Len(InitialThreads) :
           /\ InitialThreads[i].id = trim(request.body.threadId.s)
           /\ InitialThreads[i].user_id = ClaimUser

\* The rows the turn appended to chat_messages.
ClaimAppended == SubSeq(messages, Len(InitialMessages) + 1, Len(messages))

\* The memory rows of other users are as they were before the turn.
ClaimForeignMemoriesKept ==
    \E rows \in InitialMemoryRows :
        /\ Len(rows) <= Len(memRows)
        /\ \A i \in 1..Len(memRows) :
               memRows[i].user_id # ClaimUser => i <= Len(rows) /\ memRows[i] = rows[i]

\* C29: the thread a turn of u reads and appends to belongs to u, the
\* messages it appends carry u and that thread, and the messages of the other
\* threads stay as they were; when the request's threadId names no thread of
\* u the thread is a new one, and a turn that succeeds has put both messages
\* there and answers with its id; the memories listed for u are rows of u,
\* and the memory rows of other users are never changed.
C29_NoCrossUserAccess ==
    /\ turn.thread # Null => ClaimOwns(ClaimUser, turn.thread.id)
    /\ \A i \in 1..Len(ClaimAppended) :
           /\ ClaimAppended[i].user_id = ClaimUser
           /\ turn.thread # Null
           /\ ClaimAppended[i].thread_id = turn.thread.id
    /\ SubSeq(messages, 1, Len(InitialMessages)) = InitialMessages
    /\ (ClaimNoThreadOfUser /\ turn.thread # Null) =>
           /\ turn.thread.id = NewThreadId
           /\ \A i \in 1..Len(InitialThreads) : InitialThreads[i].id # NewThreadId
    /\ (turn.pc = "done" /\ turn.response.status = 200) =>
           /\ ClaimOwns(ClaimUser, turn.response.threadId)
           /\ turn.response.threadId = turn.thread.id
           /\ [i \in 1..Len(ClaimAppended) |-> ClaimAppended[i].role]
                  = <<"user", "assistant">>
    /\ \A i \in 1..Len(turn.userMemories) :
           memRows[turn.userMemories[i].id].user_id = ClaimUser
    /\ ClaimForeignMemoriesKept

C29_Witness ==
    /\ turn.pc = "done"
    /\ turn.response.status = 200
    /\ ClaimNoThreadOfUser
    /\ trim(request.body.threadId.s) = TxtForeignThreadId
    /\ turn.thread.id = NewThreadId
    /\ Len(turn.userMemories) > 0
    /\ \E task \in touchTasks : task.status = "done" /\ task.patched > 0
    /\ \E i \in 1..Len(memRows) : memRows[i].user_id # ClaimUser

\* C30: a turn that has ended answers with the success payload exactly when
\* its assistant message was persisted: after a 500 the thread holds no
\* assistant message of the turn, and once the assistant message is appended
\* the turn ends with the reply, its background tasks dispatched.
C30_SuccessIffAssistantSaved ==
    turn.pc = "done" =>
        /\ turn.response.status = 200 <=> ClaimAssistantMessageSaved
        /\ turn.response.status = 500 => ~ClaimAssistantMessageSaved
        /\ ClaimAssistantMessageSaved =>
               /\ turn.response = ClaimSuccessPayload
               /\ touchesMemories(turn.memoryStorageAvailable, turn.userSettings,
                                  turn.relevantMemories) => touchTasks # {}
               /\ extractsMemories(turn.memoryStorageAvailable, turn.userSettings,
                                   turn.message) => extractions # {}

\* The columns a patch names.
ClaimPatchedColumns(patch) ==
    (IF patch.personalizationGuidance = Undefined THEN {} ELSE {"personalization_guidance"})
    \cup (IF patch.memoryEnabled = Undefined THEN {} ELSE {"memory_enabled"})
    \cup (IF patch.autoMemoryEnabled = Undefined THEN {} ELSE {"auto_memory_enabled"})

\* The value a patch gives a column it names.
ClaimPatchValue(patch, column) ==
    CASE column = "personalization_guidance" ->
             normalizeText(patch.personalizationGuidance.s, MAX_PERSONALIZATION_LENGTH)
      [] column = "memory_enabled" -> patch.memoryEnabled
      [] column = "auto_memory_enabled" -> patch.autoMemoryEnabled

ClaimSettingsColumns == {"personalization_guidance", "memory_enabled", "auto_memory_enabled"}

\* A step in which the table changes is the upsert of one call: the row of
\* its user takes the patch's value in the columns the patch names and now
\* in updated_at, keeps every other column it had, and the rows of the
\* other users stay.
ClaimUpsertFrame ==
    settingsRows' # settingsRows =>
        \E k \in 1..Len(settingsCalls) :
            /\ settingsCalls[k].pc = "upsert"
            /\ settingsCalls'[k].pc # "upsert"
            /\ LET userId == settingsCalls[k].userId
                   patch  == settingsCalls[k].patch
                   before == ClaimSettingsOf(settingsRows, userId)
                   after  == ClaimSettingsOf(settingsRows', userId)
               IN  /\ Len(after) = 1
                   /\ after[1].updated_at = IsoDay(now)
                   /\ \A column \in ClaimPatchedColumns(patch) :
                          after[1][column] = ClaimPatchValue(patch, column)
                   /\ before # <<>> =>
                          \A column \in ClaimSettingsColumns \ ClaimPatchedColumns(patch) :
                              after[1][column] = before[1][column]
                   /\ \A other \in {"u1", "u2"} \ {userId} :
                          ClaimSettingsOf(settingsRows', other)
                              = ClaimSettingsOf(settingsRows, other)

\* Call k is an upsert that the store has carried out.
ClaimUpserted(k) ==
    /\ settingsCalls[k].fn = "upsertUserSettings"
    /\ settingsCalls[k].pc = "returned"

\* Two upserts of one user that name different columns, with no other call
\* that names a column, have both taken effect once both returned.
ClaimBothTookEffect ==
    \A k1 \in 1..Len(settingsCalls) : \A k2 \in 1..Len(settingsCalls) :
        ( /\ ClaimUpserted(k1) /\ ClaimUpserted(k2)
          /\ settingsCalls[k1].userId = settingsCalls[k2].userId
          /\ ClaimPatchedColumns(settingsCalls[k1].patch)
                 \cap ClaimPatchedColumns(settingsCalls[k2].patch) = {}
          /\ \A k3 \in 1..Len(settingsCalls) \ {k1, k2} :
                 ClaimPatchedColumns(settingsCalls[k3].patch) = {} ) =>
            LET stored == ClaimSettingsOf(settingsRows, settingsCalls[k1].userId)
            IN  /\ Len(stored) = 1
                /\ \A k \in {k1, k2} :
                       \A column \in ClaimPatchedColumns(settingsCalls[k].patch) :
                           stored[1][column] = ClaimPatchValue(settingsCalls[k].patch, column)

\* C27: upsertUserSettings changes only the columns its patch names, and
\* updated_at, and leaves the other columns at their stored values; two
\* concurrent upserts that patch different columns both take effect, in
\* either order.
C27_UpsertChangesOnlyPatched == [][ClaimUpsertFrame]_vars /\ []ClaimBothTookEffect

\* Two upserts naming different columns were both pending on a row that had
\* other values, and both have returned, the later-called one first.
C27_Witness ==
    \E k1 \in 1..Len(settingsCalls) : \E k2 \in 1..Len(settingsCalls) :
        /\ k1 < k2
        /\ ClaimUpserted(k1) /\ ClaimUpserted(k2)
        /\ settingsCalls[k1].patch = Patch(Undefined, Undefined, Bool(FALSE))
        /\ settingsCalls[k2].patch = Patch(Str(TxtBeBriefPadded), Bool(FALSE), Undefined)
        /\ settingsCalls[k2].result.autoMemoryEnabled
        /\ ~settingsCalls[k1].result.memoryEnabled
        /\ ~settingsCalls[k1].result.autoMemoryEnabled

\* The normalized contents of the user's active rows of the table.
ClaimActiveKeys(rows, userId) ==
    {normalizeMemoryText(rows[i].content) :
        i \in {j \in 1..Len(rows) : rows[j].user_id = userId /\ rows[j].is_active}}

\* In the step in which an invocation of mergeAutoMemories builds its dedup
\* set, the set holds the normalized content of every row of the user that
\* is active in the table, and no candidate it keeps has such a content.
ClaimDedupCoversStore ==
    \A m \in merges :
        m.status = "called" =>
            \A after \in {n \in merges' : n.id = m.id /\ n.status # "called"} :
                /\ ClaimActiveKeys(memRows, m.userId)
                       \subseteq {normalizeMemoryText(m.existing[i].content) :
                                     i \in 1..Len(m.existing)}
                /\ \A i \in 1..Len(after.deduped) :
                       normalizeMemoryText(after.deduped[i].content)
                           \notin ClaimActiveKeys(memRows, m.userId)

\* C22: the dedup set of a turn's merge is built from all the active
\* memories of the user as they are at merge time, whether they became
\* active after the turn listed its memories or not, so the merge keeps no
\* candidate whose normalized content an active entry already has.
C22_DedupSetCoversActiveRows == [][ClaimDedupCoversStore]_vars

\* Math.min(Math.max(c, 0), 1) on a confidence in hundredths.
ClaimClamped(c) == IF c < 0 THEN 0 ELSE IF c > 100 THEN 100 ELSE c

\* Every row is a manual one with confidence 1 or an automatic one with a
\* confidence from 0.78 to 1.
ClaimSourceAndConfidence ==
    \A i \in 1..Len(memRows) :
        \/ memRows[i].source = "manual" /\ memRows[i].confidence = 100
        \/ /\ memRows[i].source = "auto"
           /\ memRows[i].confidence >= 78
           /\ memRows[i].confidence <= 100

\* A step that adds a row adds one: either the step is the manual POST and
\* the row is manual with confidence 1, or an invocation of the merge is
\* creating and the row is automatic with the clamped confidence of one of
\* its candidates, which is at least 0.78.
ClaimCreatedRow ==
    Len(memRows') # Len(memRows) =>
        /\ Len(memRows') = Len(memRows) + 1
        /\ LET row == memRows'[Len(memRows')]
           IN  \/ /\ Len(memoryCalls') = Len(memoryCalls) + 1
                  /\ memoryCalls'[Len(memoryCalls')].route = "POST /api/settings/memory"
                  /\ row.source = "manual"
                  /\ row.confidence = 100
               \/ /\ memoryCalls' = memoryCalls
                  /\ row.source = "auto"
                  /\ row.confidence >= 78
                  /\ \E m \in merges :
                        /\ m.status = "creating"
                        /\ m.userId = row.user_id
                        /\ \E i \in 1..Len(m.candidates) :
                              /\ normalizeText(m.candidates[i].content, MAX_MEMORY_LENGTH)
                                     = row.content
                              /\ m.candidates[i].confidence.t = "num"
                              /\ row.confidence
                                     = ClaimClamped(m.candidates[i].confidence.n)

\* C26: an entry created through the manual endpoint has source manual and
\* confidence 1; an entry created by the merge has source auto and the
\* clamped confidence of its candidate, between 0.78 and 1; no other
\* combination is ever in the table.
C26_SourceAndConfidence == []ClaimSourceAndConfidence /\ [][ClaimCreatedRow]_vars

C26_Witness ==
    /\ \E i \in 1..Len(memRows) :
          /\ i > 4
          /\ memRows[i].source = "manual"
          /\ memRows[i].kind = "preference"
    /\ \E i \in 1..Len(memRows) :
          /\ i > 4
          /\ memRows[i].source = "auto"
          /\ memRows[i].confidence = 78

\* The users touchMemories and deactivateUserMemory are called for.
ClaimMemoryCallers ==
    {task.userId : task \in touchTasks} \cup {call.userId : call \in DeactivateCalls}

\* A step leaves every inactive row as it is.
ClaimInactiveFrozen ==
    \A i \in 1..Len(memRows) :
        ~memRows[i].is_active => i <= Len(memRows') /\ memRows'[i] = memRows[i]

\* A row a step changes was active and belongs to a user a call was made for.
ClaimChangesActiveOfCaller ==
    \A i \in 1..Len(memRows) :
        (i <= Len(memRows') /\ memRows'[i] # memRows[i]) =>
            memRows[i].is_active /\ memRows[i].user_id \in ClaimMemoryCallers

\* deactivateUserMemory on an inactive row reports false.
ClaimSecondDeactivateFalse ==
    \A i \in 1..Len(memRows) :
        ~memRows[i].is_active =>
            ~deactivateUserMemory(memRows, memRows[i].user_id, memRows[i].id)

\* C28: a deactivated entry is never active again and never modified again:
\* touch and deactivate change only active entries of the user they are
\* called for, so a touch that follows or races a deactivation leaves
\* lastUsedAt and updatedAt as they are, and a second deactivate of the same
\* id reports false.
C28_DeactivatedStaysAsIs ==
    /\ []ClaimSecondDeactivateFalse
    /\ [][ClaimInactiveFrozen /\ ClaimChangesActiveOfCaller]_vars

\* touchMemories has patched the id of a memory that was deactivated after
\* the turn listed it.
C28_Witness ==
    /\ Len(memRows) >= 4
    /\ ~memRows[1].is_active
    /\ memRows[1].last_used_at = Null
    /\ \E task \in touchTasks :
          /\ task.status = "done"
          /\ \E i \in 1..Len(task.ids) : task.ids[i] = 1

(***************************************************************************)
(* Claims about mergeAutoMemories (checked under SpecMerge).               *)
(***************************************************************************)
\* The confidence a claim speaks of: clamped to [0,1], non-finite taken as 0.
ClaimConfidence(candidate) ==
    IF candidate.confidence.t = "num"
    THEN (IF candidate.confidence.n < 0 THEN 0
          ELSE IF candidate.confidence.n > 100 THEN 100 ELSE candidate.confidence.n)
    ELSE 0

\* The dedup key a claim speaks of: trimmed, whitespace-collapsed, lowercased.
ClaimKey(content) == toLowerCase(collapseWhitespace(trim(content)))

ClaimExistingKeys(m) == {ClaimKey(m.existing[i].content) : i \in 1..Len(m.existing)}

\* Candidate i of invocation m passes every gate but the cap: confident enough,
\* a non-empty key that no existing entry has, and no earlier confident
\* candidate with the same key.
ClaimSurvivor(m, i) ==
    /\ ClaimConfidence(m.candidates[i]) >= 78
    /\ ClaimKey(m.candidates[i].content) # <<>>
    /\ ClaimKey(m.candidates[i].content) \notin ClaimExistingKeys(m)
    /\ \A j \in 1..(i - 1) :
          ~(/\ ClaimConfidence(m.candidates[j]) >= 78
            /\ ClaimKey(m.candidates[j].content) = ClaimKey(m.candidates[i].content))

\* The positions of the survivors of invocation m, in candidate order.
ClaimSurvivors(m) ==
    SelectSeq([i \in 1..Len(m.candidates) |-> i], LAMBDA i : ClaimSurvivor(m, i))

\* A posted row comes from candidate c.
RowIsOf(row, c) ==
    /\ ClaimKey(row.content) = ClaimKey(c.content)
    /\ row.confidence = ClaimConfidence(c)

\* C3: no create is requested for a candidate whose clamped confidence is
\* below 0.78 (every posted row comes from a candidate at 0.78 or above and
\* carries that confidence), and the boundary is exact: a first candidate at
\* 0.78 or above with a non-empty key that no existing entry has is accepted.
C3_ConfidenceGate ==
    \A m \in merges :
       /\ \A r \in 1..Len(m.requests) :
             /\ m.requests[r].confidence >= 78
             /\ \E i \in 1..Len(m.candidates) :
                   /\ ClaimConfidence(m.candidates[i]) >= 78
                   /\ RowIsOf(m.requests[r], m.candidates[i])
       /\ \A d \in 1..Len(m.deduped) : m.deduped[d].confidence >= 78
       /\ (/\ m.status # "called"
           /\ Len(m.candidates) > 0
           /\ ClaimConfidence(m.candidates[1]) >= 78
           /\ ClaimKey(m.candidates[1].content) # <<>>
           /\ ClaimKey(m.candidates[1].content) \notin ClaimExistingKeys(m))
          => (/\ Len(m.deduped) > 0
              /\ RowIsOf(m.deduped[1], m.candidates[1]))

\* An invocation that rejected a candidate at 0.77 and created one at 0.78.
C3_Witness ==
    \E m \in merges :
       /\ m.status = "done"
       /\ Len(m.requests) = 1
       /\ m.requests[1].confidence = 78
       /\ \E i, j \in 1..Len(m.candidates) :
             /\ i < j
             /\ m.candidates[i].confidence = Num(77)
             /\ m.candidates[j].confidence = Num(78)
             /\ m.candidates[i].content = m.candidates[j].content

\* C4: no create is requested whose dedup key is the key of an entry of
\* existingMemories, no two creates of one invocation share a key, and so the
\* active rows of the store keep pairwise different keys.
C4_NoDuplicateKeys ==
    \A m \in merges :
       /\ \A r \in 1..Len(m.requests) :
             ClaimKey(m.requests[r].content) \notin ClaimExistingKeys(m)
       /\ \A r, q \in 1..Len(m.requests) :
             r # q => ClaimKey(m.requests[r].content) # ClaimKey(m.requests[q].content)
       /\ \A a, b \in 1..Len(memRows) :
             (a # b /\ memRows[a].is_active /\ memRows[b].is_active)
                => ClaimKey(memRows[a].content) # ClaimKey(memRows[b].content)

\* An invocation that skipped a candidate differing from an existing entry only
\* in case and whitespace, and one differing so from an earlier candidate, and
\* still created something.
C4_Witness ==
    \E m \in merges :
       /\ m.status = "done"
       /\ Len(m.existing) > 0
       /\ Len(m.requests) >= 1
       /\ \E i \in 1..Len(m.candidates), e \in 1..Len(m.existing) :
             /\ ClaimConfidence(m.candidates[i]) >= 78
             /\ m.candidates[i].content # m.existing[e].content
             /\ ClaimKey(m.candidates[i].content) = ClaimKey(m.existing[e].content)
       /\ \E i, j \in 1..Len(m.candidates) :
             /\ i < j
             /\ ClaimConfidence(m.candidates[i]) >= 78
             /\ ClaimConfidence(m.candidates[j]) >= 78
             /\ m.candidates[i].content # m.candidates[j].content
             /\ ClaimKey(m.candidates[i].content) = ClaimKey(m.candidates[j].content)
       /\ Len(memRows) = Len(m.existing) + Len(m.requests)

\* C5: an invocation accepts exactly the first min(3, k) of its k survivors, in
\* candidate order, posts at most 3 creates, in that order, each with source
\* auto, and has posted all of them when it ends without a failed create.
C5_CapAndOrder ==
    \A m \in merges :
       /\ Len(m.requests) <= 3
       /\ m.status # "called" =>
             /\ LET survivors == ClaimSurvivors(m)
                IN  /\ Len(m.deduped) = Min(3, Len(survivors))
                    /\ \A k \in 1..Len(m.deduped) :
                          /\ RowIsOf(m.deduped[k], m.candidates[survivors[k]])
                          /\ m.deduped[k].content =
                                collapseWhitespace(trim(m.candidates[survivors[k]].content))
             /\ Len(m.requests) <= Len(m.deduped)
             /\ \A k \in 1..Len(m.requests) :
                   /\ m.requests[k].content = m.deduped[k].content
                   /\ m.requests[k].confidence = m.deduped[k].confidence
                   /\ m.requests[k].source = "auto"
                   /\ m.requests[k].user_id = m.userId
       /\ m.status = "done" => Len(m.requests) = Len(m.deduped)

\* An invocation given 6 valid candidates with 6 different keys, none of them
\* an existing one, that ended after exactly 3 creates.
C5_Witness ==
    \E m \in merges :
       /\ m.status = "done"
       /\ Len(m.candidates) = 6
       /\ Len(ClaimSurvivors(m)) = 6
       /\ Len(m.requests) = 3
       /\ Len(memRows) = Len(m.existing) + 3

(***************************************************************************)
(* Claims about selectRelevantMemories (checked under SpecSelect).         *)
(***************************************************************************)
\* The entry's tokens intersect the message's tokens.
ClaimOverlaps(memory, message) == tokenize(memory.content) \cap tokenize(message) # {}

ClaimAgeDays(memory) ==
    IF memory.updatedAt.t = "date"
    THEN (IF now > memory.updatedAt.day THEN now - memory.updatedAt.day ELSE 0)
    ELSE 30

\* recencyBonus + manualBonus + confidence * 0.7, in thousandths.
ClaimFallbackScore(memory) ==
    (IF 1500 - 50 * ClaimAgeDays(memory) > 0 THEN 1500 - 50 * ClaimAgeDays(memory) ELSE 0)
    + (IF memory.source = "manual" THEN 300 ELSE 0)
    + 7 * memory.confidence

\* overlap * 2 + recencyBonus + manualBonus + confidenceBonus, in thousandths.
ClaimScore(memory, message) ==
    2000 * Cardinality(tokenize(memory.content) \cap tokenize(message))
    + ClaimFallbackScore(memory)

\* The returned list holds entries of the input, each at most once.
ClaimFromInput(result) ==
    /\ \A j \in 1..Len(result) : result[j] \in Range(selInput)
    /\ \A j, k \in 1..Len(result) : j # k => result[j].id # result[k].id

\* C6: when some entry's tokens intersect the message's tokens and limit >= 1,
\* every returned entry overlaps the message, even when fewer than limit
\* entries do; the entries returned are then the overlapping ones, up to limit.
C6_OnlyOverlapping ==
    \A c \in 1..Len(selResults) :
       (selLimit >= 1 /\ \E i \in 1..Len(selInput) : ClaimOverlaps(selInput[i], selPrompt))
       => /\ \A j \in 1..Len(selResults[c]) : ClaimOverlaps(selResults[c][j], selPrompt)
          /\ ClaimFromInput(selResults[c])
          /\ Len(selResults[c]) =
                Min(selLimit, Cardinality({i \in 1..Len(selInput) :
                                              ClaimOverlaps(selInput[i], selPrompt)}))

\* A call where one entry overlaps, others do not and limit is larger than the
\* number of overlapping entries.
C6_Witness ==
    /\ Len(selResults) >= 1
    /\ selLimit = 2
    /\ Len(selInput) = 3
    /\ Cardinality({i \in 1..Len(selInput) : ClaimOverlaps(selInput[i], selPrompt)}) = 1
    /\ Len(selResults[1]) = 1

\* C7: when the list is not empty, no entry's tokens intersect the message's
\* and limit >= 1, exactly min(limit, n) entries are returned, by descending
\* recencyBonus + manualBonus + confidence*0.7, and no entry left out scores
\* higher than one returned.
C7_FallbackRanking ==
    \A c \in 1..Len(selResults) :
       (/\ selLimit >= 1
        /\ Len(selInput) > 0
        /\ \A i \in 1..Len(selInput) : ~ClaimOverlaps(selInput[i], selPrompt))
       => /\ Len(selResults[c]) = Min(selLimit, Len(selInput))
          /\ Len(selResults[c]) > 0
          /\ ClaimFromInput(selResults[c])
          /\ \A j, k \in 1..Len(selResults[c]) :
                j < k => ClaimFallbackScore(selResults[c][j]) >= ClaimFallbackScore(selResults[c][k])
          /\ \A i \in 1..Len(selInput) :
                selInput[i] \notin Range(selResults[c])
                => \A j \in 1..Len(selResults[c]) :
                      ClaimFallbackScore(selResults[c][j]) >= ClaimFallbackScore(selInput[i])

\* A call with a message that has tokens, none shared with any of 3 entries,
\* where the best entry is not the first of the input and one entry is cut.
C7_Witness ==
    /\ Len(selResults) >= 1
    /\ tokenize(selPrompt) # {}
    /\ Len(selInput) = 3
    /\ selLimit = 2
    /\ \A i \in 1..Len(selInput) : ~ClaimOverlaps(selInput[i], selPrompt)
    /\ Len(selResults[1]) = 2
    /\ selResults[1][1].id = 3
    /\ ClaimFallbackScore(selResults[1][1]) > ClaimFallbackScore(selResults[1][2])

=============================================================================
